---------------------------- MODULE Spec2Model ----------------------------
(***************************************************************************)
(* RIPIS: the interview state machine (src/core/interview_state.py), the   *)
(* generative-service wrapper (src/core/ai_engine.py), the single-worker   *)
(* task queue (src/ui/main_window.py) and the speech queue                 *)
(* (src/audio/text_to_speech.py).                                          *)
(*                                                                         *)
(* A Python str is modelled as a sequence of tokens.  A token is a         *)
(* one-character string; a fixed literal of the source that is only ever   *)
(* concatenated, compared or tested for emptiness is one token holding     *)
(* the whole literal.                                                      *)
(***************************************************************************)
EXTENDS Integers, Sequences, FiniteSets, TLC

VARIABLES
    state,          \* InterviewStateMachine.state
    context,        \* InterviewStateMachine.context (InterviewContext)
    last            \* observation of the Task executed last (history)

VARIABLES
    task_queue,     \* InterviewWorker.task_queue
    running,        \* InterviewWorker.running
    is_busy,        \* InterviewWorker.is_busy
    wpc,            \* where the worker thread stands in run/_process_task
    task,           \* the Task the worker holds
    is_interview_active,    \* MainWindow.is_interview_active
    is_paused,              \* MainWindow.is_paused
    is_mic_muted,           \* MainWindow.is_mic_muted
    window,         \* where the UI thread stands in closeEvent
    speech_queue,   \* SimpleTTS.speech_queue
    is_speaking,    \* SimpleTTS.is_speaking
    stop_requested, \* SimpleTTS.stop_requested
    tpc,            \* SimpleTTS.speak_thread and where it stands in _speak_loop
    next_id,        \* history: the number the next queued Task gets
    executed,       \* history: the Tasks dequeued, in order
    sm_in,          \* history: the threads inside a state-machine entry point
    spoke,          \* history: the Tasks whose response was passed to speak()
    events,         \* history: what the worker did for the Task it holds
    ignored,        \* history: the last input dropped as is_busy read true
    playing,        \* history: the Task whose response is being played
    played          \* history: the Tasks whose response has been played

\* What the handlers write and never read: the transcript, the history kept
\* by the generative-service wrapper, and the clock they stamp from.
VARIABLES
    transcript,             \* InterviewContext.transcript
    conversation_history,   \* AIEngine.conversation_history
    now                     \* the reading of datetime.now()

\* The reading of a feedback response, taken by itself.
VARIABLES
    fb_response,    \* the text generate_response returned for FEEDBACK_PROMPT
    fb_result       \* what lines 396-413 made of it, once they ran

\* The inputs of the runs that follow one input through a handler.
VARIABLES
    heard,          \* the utterance answered to the greeting
    generated,      \* the response handed to _parse_question_response
    extracted,      \* what _parse_question_response returned, once it ran
    said            \* the utterances processed since the answer to the greeting

smVars == <<state, context, last>>

logVars == <<transcript, conversation_history, now>>

fbVars == <<fb_response, fb_result>>

inputVars == <<heard, generated, extracted, said>>

coreVars == <<smVars, logVars, fbVars, inputVars>>

workerVars ==
    <<task_queue, running, is_busy, wpc, task,
      is_interview_active, is_paused, is_mic_muted, window,
      speech_queue, is_speaking, stop_requested, tpc,
      next_id, executed, sm_in, spoke, events, ignored, playing, played>>

vars == <<smVars, logVars, fbVars, inputVars, workerVars>>

-----------------------------------------------------------------------------
(* Bounds of the model *)

\* hints_given is unbounded in the code; hints are given while below this.
MaxHints == 4

\* len(mistakes) is unbounded in the code; WRONG replies are drawn while
\* the list is shorter than this.
MaxMistakes == 1

\* Largest run of whitespace put on either side of a stoplist word.
MaxPad == 1

\* The producers queue this many Tasks in all.
MaxTasks == 3

\* len(transcript) is unbounded in the code; where the transcript is
\* followed, Tasks run while it stays within this.
MaxTranscript == 4

\* The clock is followed up to this reading.
MaxClock == 2

\* len(conversation_history) is unbounded in the code; in the long
\* conversation, Tasks run while it stays within this.
MaxHistory == 24

\* A caller of the speech synthesis passes this many texts to speak().
MaxTexts == 3

\* The longest transcript followed in the session with the hint button.
MaxTalk == 6

-----------------------------------------------------------------------------
(* str primitives *)

UpperLetters ==
    <<"A","B","C","D","E","F","G","H","I","J","K","L","M",
      "N","O","P","Q","R","S","T","U","V","W","X","Y","Z">>

LowerLetters ==
    <<"a","b","c","d","e","f","g","h","i","j","k","l","m",
      "n","o","p","q","r","s","t","u","v","w","x","y","z">>

Whitespace == {" ", "\t", "\n"}

LowerChar(c) ==
    IF \E i \in 1..26 : UpperLetters[i] = c
    THEN LowerLetters[CHOOSE i \in 1..26 : UpperLetters[i] = c]
    ELSE c

UpperChar(c) ==
    IF \E i \in 1..26 : LowerLetters[i] = c
    THEN UpperLetters[CHOOSE i \in 1..26 : LowerLetters[i] = c]
    ELSE c

\* str.lower()
Lower(s) == [i \in 1..Len(s) |-> LowerChar(s[i])]

\* str.upper()
Upper(s) == [i \in 1..Len(s) |-> UpperChar(s[i])]

\* kw in s
Contains(s, kw) ==
    \E i \in 0..(Len(s) - Len(kw)) :
        \A j \in 1..Len(kw) : s[i + j] = kw[j]

\* str.strip()
Strip(s) ==
    LET idx == {i \in 1..Len(s) : s[i] \notin Whitespace}
    IN  IF idx = {} THEN <<>>
        ELSE LET lo == CHOOSE i \in idx : \A j \in idx : i <= j
                 hi == CHOOSE i \in idx : \A j \in idx : j <= i
             IN  SubSeq(s, lo, hi)

\* The lengths of the words of str.split(): maximal runs of non-whitespace.
WordStarts(s) ==
    {i \in 1..Len(s) : s[i] \notin Whitespace
                       /\ (i = 1 \/ s[i - 1] \in Whitespace)}

WordLen(s, i) ==
    LET stop == {j \in i..Len(s) : s[j] \in Whitespace}
    IN  IF stop = {} THEN Len(s) - i + 1
        ELSE (CHOOSE j \in stop : \A k \in stop : j <= k) - i

-----------------------------------------------------------------------------
(* Classifiers *)

StopList ==
    { <<"t","h","e">>, <<"a">>, <<"a","n">>, <<"u","h">>, <<"u","m">> }

hint_keywords ==
    { <<"h","i","n","t">>, <<"h","e","l","p">>, <<"s","t","u","c","k">>,
      <<"d","o","n","'","t"," ","k","n","o","w">>,
      <<"n","o","t"," ","s","u","r","e">>,
      <<"c","o","n","f","u","s","e","d">>, <<"c","l","u","e">> }

done_keywords ==
    { <<"d","o","n","e">>, <<"f","i","n","i","s","h","e","d">>,
      <<"c","o","m","p","l","e","t","e">>,
      <<"t","h","a","t","'","s"," ","i","t">>,
      <<"t","h","a","t","'","s"," ","m","y"," ",
        "s","o","l","u","t","i","o","n">>,
      <<"w","o","r","k","s">>,
      <<"s","h","o","u","l","d"," ","w","o","r","k">> }

\* Mutant: the stoplist test without strip().
IsGarbageNoStrip(text) ==
    \/ Len(text) < 3
    \/ Lower(text) \in StopList
    \/ LET starts == WordStarts(text)
           short  == {i \in starts : WordLen(text, i) <= 2}
       IN  /\ Cardinality(starts) > 3
           /\ Cardinality(short) * 5 > Cardinality(starts) * 3

_is_garbage_input(text) ==
    \/ Len(text) < 3
    \/ Strip(Lower(text)) \in StopList
    \/ LET starts == WordStarts(text)
           short  == {i \in starts : WordLen(text, i) <= 2}
       IN  /\ Cardinality(starts) > 3
           /\ Cardinality(short) * 5 > Cardinality(starts) * 3

_is_asking_for_hint(user_input) ==
    \E kw \in hint_keywords : Contains(Lower(user_input), kw)

_seems_finished(user_input) ==
    \E kw \in done_keywords : Contains(Lower(user_input), kw)


-----------------------------------------------------------------------------
(* More str primitives *)

Min(a, b) == IF a <= b THEN a ELSE b

\* s[:n]
Prefix(s, n) == SubSeq(s, 1, Min(n, Len(s)))

\* s.startswith(old) at offset i (0-based)
MatchAt(s, old, i) ==
    /\ i + Len(old) <= Len(s)
    /\ \A j \in 1..Len(old) : s[i + j] = old[j]

\* s.replace(old, ""): every non-overlapping occurrence, left to right.
RECURSIVE RemoveAll(_, _)
RemoveAll(s, old) ==
    IF Len(s) < Len(old) THEN s
    ELSE IF MatchAt(s, old, 0)
         THEN RemoveAll(SubSeq(s, Len(old) + 1, Len(s)), old)
         ELSE <<Head(s)>> \o RemoveAll(Tail(s), old)

\* The last n elements of a list: xs[-n:]
LastN(xs, n) == SubSeq(xs, Len(xs) - Min(n, Len(xs)) + 1, Len(xs))

-----------------------------------------------------------------------------
(* Literals of the source *)

RepromptText == <<"I didn't catch that. Could you repeat?">>

HintsUnavailableText == <<"Hints are available while solving a problem.">>

MoveOnText == <<"Let's move on to the next problem. ">>

FeedbackIntroText ==
    <<"Before we move on, let me give you some feedback. ">>

DefaultTitle == <<"Interview Question">>

DefaultExplanation ==
    <<"Alright, I've written the question in the editor. Take a look at the problem and walk me through your approach before you start coding.">>

EmptyReplyFallback == <<"I'm here to help! Please go ahead.">>

HttpErrorFallback ==
    <<"I apologize, I'm having some trouble. Let me try again.">>

TimeoutFallback == <<"I need a moment to think about that...">>

ExceptionFallback ==
    <<"I apologize for the technical issue. Please continue.">>

WrongTag == <<"[","W","R","O","N","G","]">>

UnclearFallback ==
    <<"[","U","N","C","L","E","A","R","]"," ","Okay, continue.">>

\* The tags removed from the displayed text, in the order of the loop.
DisplayTags ==
    << <<"[","C","O","R","R","E","C","T","]">>,
       <<"[","W","R","O","N","G","]">>,
       <<"[","U","N","C","L","E","A","R","]">>,
       <<"[","c","o","r","r","e","c","t","]">>,
       <<"[","w","r","o","n","g","]">>,
       <<"[","u","n","c","l","e","a","r","]">> >>

SectionLabels ==
    { <<"Q","U","E","S","T","I","O","N","_","T","I","T","L","E",":">>,
      <<"Q","U","E","S","T","I","O","N","_","T","E","X","T",":">>,
      <<"V","E","R","B","A","L",":">>,
      <<"E","X","P","L","A","N","A","T","I","O","N",":">> }

SectionDelimiter == <<"-","-","-">>

-----------------------------------------------------------------------------
(* The generative service: what a call can come back with *)

\* The prompts of the source, by the name of the template or of the handler
\* that builds the prompt inline.
Prompts ==
    { "GREETING_PROMPT", "QUESTION_PROMPT", "FEEDBACK_PROMPT", "HINT_PROMPT",
      "FOLLOW_UP_PROMPT", "CLOSING_PROMPT", "follow_up_response",
      "contextual" }

\* The texts the service is taken to answer a feedback prompt with
\* (message.content): nothing, a WRONG verdict, and a CORRECT verdict that
\* quotes the wrong tag further on.
FeedbackContents ==
    { <<>>,
      <<"[","W","R","O","N","G","]"," ","n","o"," ">>,
      <<"[","C","O","R","R","E","C","T","]"," ","[","w","r","o","n","g","]">> }

\* The texts the service is taken to answer a question prompt with:
\* nothing, and a lone section delimiter.
QuestionContents == { <<>>, <<"-","-","-">> }

AIContents == FeedbackContents \cup QuestionContents

\* A reply of the service: a 200 reply with its content, or a failure.
AIReplies ==
    [status : {"ok"}, content : AIContents]
      \cup [status : {"timeout"}, content : {<<>>}]

\* The ways a call fails: requests.exceptions.Timeout, a status other than
\* 200, and any other exception (a refused connection among them).
FailureKinds == {"timeout", "http_error", "exception"}

FailedReplies == [status : FailureKinds, content : {<<>>}]

\* The replies drawn for a prompt.  The text answered to the other prompts
\* is only handed on, so the empty text stands for it.
RepliesFor(prompt) ==
    {r \in AIReplies :
        r.status = "ok" =>
            r.content \in (CASE prompt = "FEEDBACK_PROMPT" -> FeedbackContents
                             [] prompt = "QUESTION_PROMPT" -> QuestionContents
                             [] OTHER -> {<<>>})}

\* One reply for every prompt of ps.
ReplyChoices(ps) ==
    {ai \in [ps -> AIReplies] : \A p \in ps : ai[p] \in RepliesFor(p)}

\* The same with every way of failing.
RepliesOrFailures(ps) ==
    {ai \in [ps -> AIReplies \cup FailedReplies] :
        \A p \in ps : ai[p] \in RepliesFor(p) \cup FailedReplies}

\* The think-tag handling is not exercised: no text of AIContents holds '<'.
_clean_response(response) == Strip(response)

\* What generate_response returns for the reply r of the service.
generate_response(r) ==
    IF r.status = "ok"
    THEN LET assistant_message == _clean_response(r.content)
         IN  IF assistant_message # <<>> THEN assistant_message
             ELSE EmptyReplyFallback
    ELSE IF r.status = "http_error" THEN HttpErrorFallback
    ELSE IF r.status = "timeout" THEN TimeoutFallback
    ELSE ExceptionFallback

-----------------------------------------------------------------------------
(* Inputs *)

\* The words of the stoplist that the reprompt property names.
NoiseWords == { <<"u","m">>, <<"u","h">>, <<"t","h","e">>, <<"a">> }

\* Every spelling of w in upper, lower or mixed case.
CaseVariants(w) ==
    {v \in [1..Len(w) -> {"a","e","h","m","t","u","A","E","H","M","T","U"}] :
        \A i \in 1..Len(w) : v[i] \in {w[i], UpperChar(w[i])}}

Pads == UNION {[1..n -> Whitespace] : n \in 0..MaxPad}

\* A noise word in any letter case with whitespace around it.
NoiseVariants ==
    {l \o v \o r : l \in Pads, r \in Pads,
                   v \in UNION {CaseVariants(w) : w \in NoiseWords}}

\* The utterances the candidate is taken to say.
Utterances ==
    { <<"u","m">>,                                       \* noise
      <<" ","T","h","e"," ">>,                           \* noise, padded
      <<"a"," ","b"," ","c"," ","h","i","n","t">>,       \* short words + hint
      <<"i"," ","m"," ","s","o"," ","d","o","n","e">>,   \* short words + done
      <<"I","'","m"," ","S","T","U","C","K">>,           \* hint
      <<"d","o","n","e">>,                               \* completion
      <<"h","e","l","p"," ","d","o","n","e">>,           \* hint + completion
      <<"c","o","d","i","n","g">> }                      \* none of these

\* The editor's text sent along with a Task.
CodeSnapshots == { <<"x">> }


\* The texts generate_response can return.
ReturnedTexts == {generate_response(r) : r \in AIReplies \cup FailedReplies}

\* The classifiers and the keyword tests are evaluated once for every
\* utterance and kept as tables.
GarbageInputs == {u \in Utterances : _is_garbage_input(u)}

HintInputs == {u \in Utterances : _is_asking_for_hint(u)}

FinishedInputs == {u \in Utterances : _seems_finished(u)}

-----------------------------------------------------------------------------
(* InterviewStateMachine.  A handler is an operator on a machine record m:  *)
(*   state, context  the fields of the state machine;                       *)
(*   response        the value the handler returns;                         *)
(*   ai_calls        calls of ai_engine.generate_response made so far in    *)
(*                   the Task;                                              *)
(*   phases          the phases assigned to self.state during the Task   *)
(*   reported        the phase last passed to on_state_change during the *)
(*                   Task, "none" when the Task passed none              *)
(*   prompts         the prompts of these calls; the call with prompt p is  *)
(*                   answered with ai[p];                                   *)
(*   texts           what generate_response returned, by prompt;            *)
(*   histories       the history sent along with these calls, by prompt;    *)
(*   statuses        how these calls ended, by prompt;                      *)
(*   hint_level      the hint_level passed to HINT_PROMPT, 0 without hint;  *)
(*   increments      executions of 'follow_up_attempts += 1' in the Task;   *)
(*   forced          whether _move_on_or_conclude was entered;              *)
(*   path            the branch of _handle_solving_response taken.          *)

\* An Optional[datetime] that is not set.  Clock readings are positive.
None == 0

\* InterviewContext(), but for its transcript, which is kept beside it.
NewContext ==
    [ interview_type     |-> "",
      difficulty         |-> "medium",
      current_question   |-> <<>>,
      current_code       |-> <<>>,
      hints_given        |-> 0,
      questions_asked    |-> <<>>,
      start_time         |-> None,
      end_time           |-> None,
      follow_up_attempts |-> 0,
      max_retries        |-> 5,
      mistakes           |-> <<>> ]

\* AIEngine._build_messages: the part of the stored history sent along.
history_limit == 20

\* Mutant: the oldest entries of the history sent along.
BuildMessagesOldest(history) == Prefix(history, history_limit)

_build_messages(history) == LastN(history, history_limit)

\* AIEngine.reset_conversation
reset_conversation(m) == [m EXCEPT !.conversation_history = <<>>]

\* What a call with a status 200 reply r appends to the stored history; the
\* prompt stands for its text.
Exchange(prompt, r) ==
    << [role |-> "user", content |-> <<prompt>>],
       [role |-> "assistant", content |-> _clean_response(r.content)] >>

\* Mutant: the exchange stored whatever the outcome of the call.
GenerateStoringFailures(m, ai, prompt) ==
    [ text |-> generate_response(ai[prompt]),
      m    |-> [m EXCEPT !.ai_calls = @ + 1,
                         !.prompts = @ \cup {prompt},
                         !.texts = (prompt :> generate_response(ai[prompt]))
                                     @@ @,
                         !.statuses = (prompt :> ai[prompt].status) @@ @,
                         !.histories =
                             (prompt :> _build_messages(m.conversation_history))
                               @@ @,
                         !.conversation_history =
                             @ \o Exchange(prompt, ai[prompt])] ]

\* response = self.ai_engine.generate_response(prompt)
Generate(m, ai, prompt) ==
    [ text |-> generate_response(ai[prompt]),
      m    |-> [m EXCEPT !.ai_calls = @ + 1,
                         !.statuses = (prompt :> ai[prompt].status) @@ @,
                         !.prompts = @ \cup {prompt},
                         !.texts = (prompt :> generate_response(ai[prompt]))
                                     @@ @,
                         !.histories =
                             (prompt :> _build_messages(m.conversation_history))
                               @@ @,
                         !.conversation_history =
                             IF ai[prompt].status = "ok"
                             THEN @ \o Exchange(prompt, ai[prompt])
                             ELSE @] ]

\* Mutant: the entry put in front.
AddToTranscriptFront(m, speaker, text) ==
    [m EXCEPT !.transcript =
                  <<[speaker |-> speaker, text |-> text,
                     timestamp |-> m.now]>> \o @]

_add_to_transcript(m, speaker, text) ==
    [m EXCEPT !.transcript =
                  Append(@, [speaker |-> speaker, text |-> text,
                             timestamp |-> m.now])]

TitleLabel ==
    <<"Q","U","E","S","T","I","O","N","_","T","I","T","L","E",":">>

TextLabel ==
    <<"Q","U","E","S","T","I","O","N","_","T","E","X","T",":">>

ExplanationLabels ==
    { <<"V","E","R","B","A","L",":">>,
      <<"E","X","P","L","A","N","A","T","I","O","N",":">> }

Least(S) == CHOOSE x \in S : \A y \in S : x <= y

Greatest(S) == CHOOSE x \in S : \A y \in S : y <= x

\* The positions of s that hold none of chars.
Kept(s, chars) == {i \in 1..Len(s) : s[i] \notin chars}

\* s.strip(chars)
StripChars(s, chars) ==
    IF Kept(s, chars) = {} THEN <<>>
    ELSE SubSeq(s, Least(Kept(s, chars)), Greatest(Kept(s, chars)))

\* re.search(r'LABEL\s*(.+?)(?=STOP|$)', s, re.IGNORECASE | re.DOTALL) for
\* the alternatives labels and stops: the leftmost label, the whitespace
\* after it, then the shortest group of at least one character that ends
\* before a stop or at the end of s.  After a label followed by whitespace
\* only, the group is one character of that whitespace; a label that ends
\* s does not match.  u is s in upper case.

NoMatch == [matched |-> FALSE, group |-> <<>>]

\* The offsets at which a label begins.
LabelHits(u, labels) ==
    {i \in 0..Len(u) : \E l \in labels : MatchAt(u, l, i)}

\* The offset after the label that begins at offset i.
LabelEnd(u, labels, i) ==
    i + Len(CHOOSE x \in labels : MatchAt(u, x, i))

\* The positions after offset e that hold no whitespace.
BodyAfter(s, e) == {j \in (e + 1)..Len(s) : s[j] \notin Whitespace}

\* Where a group that begins at position g0 may end.
GroupEnds(u, stops, g0) ==
    {k \in g0..Len(u) : \/ k = Len(u)
                        \/ \E st \in stops : MatchAt(u, st, k)}

GroupFrom(s, u, stops, body) ==
    IF body = {} THEN <<s[Len(s)]>>
    ELSE SubSeq(s, Least(body), Least(GroupEnds(u, stops, Least(body))))

SectionAfter(s, u, stops, e) ==
    IF e >= Len(s) THEN NoMatch
    ELSE [matched |-> TRUE,
          group |-> GroupFrom(s, u, stops, BodyAfter(s, e))]

SectionIn(s, u, labels, stops, hits) ==
    IF hits = {} THEN NoMatch
    ELSE SectionAfter(s, u, stops, LabelEnd(u, labels, Least(hits)))

SearchSection(s, labels, stops) ==
    SectionIn(s, Upper(s), labels, stops, LabelHits(Upper(s), labels))

\* Lines 328-329
TitleOf(title_match) ==
    IF title_match.matched
    THEN StripChars(StripChars(Strip(title_match.group), {"\""}), {"'"})
    ELSE DefaultTitle

\* Lines 333-334 and 338-339
FieldOf(match) == IF match.matched THEN Strip(match.group) ELSE <<>>

\* Lines 327-339: the three searches and what they leave in the three
\* fields before the fallback.
ExtractSections(response) ==
    [ question_title |->
          TitleOf(SearchSection(response, {TitleLabel}, {SectionDelimiter})),
      question_text |->
          FieldOf(SearchSection(response, {TextLabel}, ExplanationLabels)),
      explanation |->
          FieldOf(SearchSection(response, ExplanationLabels, {})) ]

\* Lines 347-350: '---' removed, then strip().
Cleaned(s) == Strip(RemoveAll(s, SectionDelimiter))

\* Line 322
EmptyResponseResult ==
    << DefaultTitle, <<"Please solve the problem.">>,
       <<"Let me give you a problem to work on.">> >>

\* Mutant: the whole response used as soon as one of the two is missing.
FallbackWhenEither(response, e) ==
    << Cleaned(e.question_title),
       Cleaned(IF e.question_text = <<>> \/ e.explanation = <<>>
               THEN response ELSE e.question_text),
       Cleaned(IF e.question_text = <<>> \/ e.explanation = <<>>
               THEN response ELSE e.explanation) >>

\* Lines 343-350, from the fields e the searches left.
FallbackAndCleanup(response, e) ==
    << Cleaned(e.question_title),
       Cleaned(IF e.question_text = <<>> /\ e.explanation = <<>>
               THEN response ELSE e.question_text),
       Cleaned(IF e.question_text = <<>> /\ e.explanation = <<>>
               THEN response ELSE e.explanation) >>

_parse_question_response(response) ==
    IF response = <<>> THEN EmptyResponseResult
    ELSE FallbackAndCleanup(response, ExtractSections(response))

ParsedQuestion == [t \in ReturnedTexts |-> _parse_question_response(t)]

\* Mutant: the question stored without the reset of hints_given.
PresentQuestionKeepHints(m, ai) ==
    LET g == Generate([m EXCEPT !.state = "QUESTION_PRESENTING",
                                !.phases = @ \cup {"QUESTION_PRESENTING"},
                                !.reported = "QUESTION_PRESENTING"], ai,
                      "QUESTION_PROMPT")
        parsed == ParsedQuestion[g.text]
        explanation == IF parsed[3] = <<>> THEN DefaultExplanation
                       ELSE parsed[3]
    IN  [_add_to_transcript(g.m, "AI", explanation) EXCEPT
                    !.context.current_question = parsed[2],
                    !.context.questions_asked = Append(@, parsed[1]),
                    !.state = "CANDIDATE_SOLVING",
                    !.phases = @ \cup {"CANDIDATE_SOLVING"},
                    !.reported = "CANDIDATE_SOLVING",
                    !.response = explanation]

_present_question(m, ai) ==
    LET g == Generate([m EXCEPT !.state = "QUESTION_PRESENTING",
                                !.phases = @ \cup {"QUESTION_PRESENTING"},
                                !.reported = "QUESTION_PRESENTING"], ai,
                      "QUESTION_PROMPT")
        parsed == ParsedQuestion[g.text]
        explanation == IF parsed[3] = <<>> THEN DefaultExplanation
                       ELSE parsed[3]
    IN  [_add_to_transcript(g.m, "AI", explanation) EXCEPT
                    !.context.current_question = parsed[2],
                    !.context.questions_asked = Append(@, parsed[1]),
                    !.context.hints_given = 0,
                    !.state = "CANDIDATE_SOLVING",
                    !.phases = @ \cup {"CANDIDATE_SOLVING"},
                    !.reported = "CANDIDATE_SOLVING",
                    !.response = explanation]

\* The keyword cascade of _handle_greeting_response (lines 248-258).
DetectInterviewType(user_input) ==
    LET user_lower == Lower(user_input)
        has(kw) == Contains(user_lower, kw)
    IN      IF \/ has(<<"d","s","a">>)
               \/ has(<<"d","a","t","a"," ","s","t","r","u","c","t","u","r","e">>)
               \/ has(<<"a","l","g","o","r","i","t","h","m">>)
               \/ has(<<"c","o","d","i","n","g">>)
            THEN "DSA"
            ELSE IF has(<<"s","y","s","t","e","m">>)
                    \/ has(<<"d","e","s","i","g","n">>)
            THEN "System Design"
            ELSE IF \/ has(<<"d","b","m","s">>)
                    \/ has(<<"d","a","t","a","b","a","s","e">>)
                    \/ has(<<"s","q","l">>)
            THEN "DBMS"
            ELSE IF has(<<"o","s">>)
                    \/ has(<<"o","p","e","r","a","t","i","n","g">>)
            THEN "Operating Systems"
            ELSE "DSA"

\* What a candidate answers to the greeting: topics by their names.
TopicPhrases ==
    { <<"c","o","d","i","n","g">>,
      <<"a","l","g","o","r","i","t","h","m">>,
      <<"d","a","t","a"," ","s","t","r","u","c","t","u","r","e","s">>,
      <<"d","s","a">>,
      <<"s","y","s","t","e","m">>,
      <<"d","e","s","i","g","n">>,
      <<"s","y","s","t","e","m"," ","d","e","s","i","g","n">>,
      <<"d","a","t","a","b","a","s","e">>,
      <<"s","q","l">>,
      <<"d","b","m","s">>,
      <<"o","p","e","r","a","t","i","n","g">>,
      <<"o","s">>,
      <<"o","p","e","r","a","t","i","n","g"," ","s","y","s","t","e","m","s">>,
      <<"h","e","l","l","o">> }

\* A phrase in lower case, in upper case, and with a capital.
Cased(w) == {w, Upper(w), <<UpperChar(Head(w))>> \o Tail(w)}

\* The phrase alone and inside a sentence.
TopicUtterances ==
    {l \o v \o r :
        l \in {<<>>, <<"i"," ","w","a","n","t"," ">>},
        r \in {<<>>, <<" ","p","l","e","a","s","e">>},
        v \in UNION {Cased(w) : w \in TopicPhrases}}

InterviewTypeOf ==
    [u \in Utterances \cup TopicUtterances |-> DetectInterviewType(u)]

\* Mutant: the topic confirmed before a question is presented.
GreetingConfirmsTopic(m, user_input, ai) ==
    [m EXCEPT !.context.interview_type = InterviewTypeOf[user_input],
              !.state = "TOPIC_SELECTION",
              !.phases = @ \cup {"TOPIC_SELECTION"}]

_handle_greeting_response(m, user_input, ai) ==
    _present_question(
        [m EXCEPT !.context.interview_type = InterviewTypeOf[user_input]],
        ai)

_handle_topic_selection(m, user_input, ai) == _present_question(m, ai)

\* Mutant: the hint level without its cap.
GiveHintUncapped(m, ai) ==
    LET g == Generate([m EXCEPT !.state = "GIVING_HINT",
                                !.phases = @ \cup {"GIVING_HINT"},
                                !.reported = "GIVING_HINT",
                                !.context.hints_given = @ + 1,
                                !.hint_level = m.context.hints_given + 1],
                      ai, "HINT_PROMPT")
    IN  [_add_to_transcript(g.m, "AI", g.text) EXCEPT
                    !.state = "CANDIDATE_SOLVING",
                    !.phases = @ \cup {"CANDIDATE_SOLVING"},
                    !.response = g.text]

\* Mutant: the hint given without the return to CANDIDATE_SOLVING.
GiveHintResting(m, ai) ==
    LET g == Generate([m EXCEPT !.state = "GIVING_HINT",
                                !.phases = @ \cup {"GIVING_HINT"},
                                !.reported = "GIVING_HINT",
                                !.context.hints_given = @ + 1,
                                !.hint_level =
                                    Min(m.context.hints_given + 1, 3)],
                      ai, "HINT_PROMPT")
    IN  [_add_to_transcript(g.m, "AI", g.text) EXCEPT !.response = g.text]

_give_hint(m, ai) ==
    LET g == Generate([m EXCEPT !.state = "GIVING_HINT",
                                !.phases = @ \cup {"GIVING_HINT"},
                                !.reported = "GIVING_HINT",
                                !.context.hints_given = @ + 1,
                                !.hint_level =
                                    Min(m.context.hints_given + 1, 3)],
                      ai, "HINT_PROMPT")
    IN  [_add_to_transcript(g.m, "AI", g.text) EXCEPT
                    !.state = "CANDIDATE_SOLVING",
                    !.phases = @ \cup {"CANDIDATE_SOLVING"},
                    !.response = g.text]

\* Mutant: the follow-up question clearing the hint counter.
AskFollowUpResetsHints(m, ai) ==
    LET g == Generate([m EXCEPT !.state = "FOLLOW_UP",
                                !.phases = @ \cup {"FOLLOW_UP"},
                                !.reported = "FOLLOW_UP",
                                !.context.hints_given = 0], ai,
                      "FOLLOW_UP_PROMPT")
    IN  [_add_to_transcript(g.m, "AI", g.text) EXCEPT !.response = g.text]

_ask_follow_up(m, ai) ==
    LET g == Generate([m EXCEPT !.state = "FOLLOW_UP",
                                !.phases = @ \cup {"FOLLOW_UP"},
                                !.reported = "FOLLOW_UP"], ai,
                      "FOLLOW_UP_PROMPT")
    IN  [_add_to_transcript(g.m, "AI", g.text) EXCEPT !.response = g.text]

\* Mutant: the session closed without the stamp of end_time.
EndInterviewUnstamped(m, ai) ==
    LET g == Generate([m EXCEPT !.state = "CLOSING",
                                !.phases = @ \cup {"CLOSING"},
                                !.reported = "CLOSING"], ai, "CLOSING_PROMPT")
    IN  [_add_to_transcript(g.m, "AI", g.text) EXCEPT
                    !.state = "ENDED",
                    !.phases = @ \cup {"ENDED"},
                    !.response = g.text]

end_interview(m, ai) ==
    LET g == Generate([m EXCEPT !.state = "CLOSING",
                                !.phases = @ \cup {"CLOSING"},
                                !.reported = "CLOSING",
                                !.context.end_time = m.now], ai,
                      "CLOSING_PROMPT")
    IN  [_add_to_transcript(g.m, "AI", g.text) EXCEPT
                    !.state = "ENDED",
                    !.phases = @ \cup {"ENDED"},
                    !.response = g.text]

RECURSIVE JoinCorrections(_)
JoinCorrections(ms) ==
    IF ms = <<>> THEN <<>>
    ELSE Head(ms).correction \o <<" ">> \o JoinCorrections(Tail(ms))

\* Mutant: the cap of questions at 3 for 2.
MoveOnBelowThree(m, ai) ==
    LET c == m.context
        IsRecent(mk) == Contains(mk.question, Prefix(c.current_question, 50))
        recent_mistakes == SelectSeq(c.mistakes, IsRecent)
        feedback ==
            IF c.mistakes # <<>> /\ recent_mistakes # <<>>
            THEN FeedbackIntroText
                   \o JoinCorrections(LastN(recent_mistakes, 2))
                   \o <<"\n", "\n">>
            ELSE <<>>
        f == [m EXCEPT !.forced = TRUE]
    IN  IF Len(c.questions_asked) < 3
        THEN LET n == _present_question(f, ai)
             IN  [n EXCEPT !.response = feedback \o MoveOnText \o n.response]
        ELSE LET e == end_interview(f, ai)
             IN  [e EXCEPT !.response = feedback \o e.response]

_move_on_or_conclude(m, ai) ==
    LET c == m.context
        IsRecent(mk) == Contains(mk.question, Prefix(c.current_question, 50))
        recent_mistakes == SelectSeq(c.mistakes, IsRecent)
        feedback ==
            IF c.mistakes # <<>> /\ recent_mistakes # <<>>
            THEN FeedbackIntroText
                   \o JoinCorrections(LastN(recent_mistakes, 2))
                   \o <<"\n", "\n">>
            ELSE <<>>
        f == [m EXCEPT !.forced = TRUE]
    IN  IF Len(c.questions_asked) < 2
        THEN LET n == _present_question(f, ai)
             IN  [n EXCEPT !.response = feedback \o MoveOnText \o n.response]
        ELSE LET e == end_interview(f, ai)
             IN  [e EXCEPT !.response = feedback \o e.response]

RECURSIVE StripTags(_, _)
StripTags(text, k) ==
    IF k > Len(DisplayTags) THEN text
    ELSE StripTags(Strip(RemoveAll(text, DisplayTags[k])), k + 1)

\* What lines 396-413 make of the text generate_response returned: whether
\* it is tagged WRONG, the correction stored and the text displayed.
ReadFeedback(text) ==
    LET response == IF text = <<>> THEN UnclearFallback ELSE text
    IN  [ wrong      |-> Contains(Upper(response), WrongTag),
          correction |-> Strip(RemoveAll(RemoveAll(response, WrongTag),
                                         Lower(WrongTag))),
          display    |-> StripTags(response, 1) ]

FeedbackOf == [t \in ReturnedTexts |-> ReadFeedback(t)]

\* Mutant: the retry counter cleared by a response tagged WRONG.
GiveFeedbackClearingRetries(m, user_input, ai) ==
    LET g == Generate(m, ai, "FEEDBACK_PROMPT")
        fb == FeedbackOf[g.text]
        c == g.m.context
        mistake ==
            [ question     |-> Prefix(c.current_question, 100),
              wrong_answer |-> user_input,
              correction   |-> fb.correction ]
        recorded ==
            IF fb.wrong
            THEN [g.m EXCEPT !.context.mistakes = Append(@, mistake),
                             !.context.follow_up_attempts = 0]
            ELSE g.m
    IN  [_add_to_transcript(recorded, "AI", fb.display) EXCEPT
                    !.response = fb.display]

\* The feedback branch of _handle_solving_response (lines 385-416).
GiveFeedback(m, user_input, ai) ==
    LET g == Generate(m, ai, "FEEDBACK_PROMPT")
        fb == FeedbackOf[g.text]
        c == g.m.context
        mistake ==
            [ question     |-> Prefix(c.current_question, 100),
              wrong_answer |-> user_input,
              correction   |-> fb.correction ]
        recorded ==
            IF fb.wrong
            THEN [g.m EXCEPT !.context.mistakes = Append(@, mistake)]
            ELSE g.m
    IN  [_add_to_transcript(recorded, "AI", fb.display) EXCEPT
                    !.response = fb.display]

\* Mutant: the retry test with > for >=.
RetriesExhaustedLate(c) == c.follow_up_attempts > c.max_retries

\* Mutant: the retries exhausted one attempt early.
RetriesExhaustedEarly(c) == c.follow_up_attempts >= c.max_retries - 1

\* if self.context.follow_up_attempts >= self.context.max_retries
RetriesExhausted(c) == c.follow_up_attempts >= c.max_retries

\* Mutant: a garbage utterance counted as an attempt.
GarbageBranchCounting(m) ==
    [m EXCEPT !.response = RepromptText, !.path = "garbage",
              !.context.follow_up_attempts =
                  IF @ + 1 < m.context.max_retries THEN @ + 1 ELSE @]

\* Lines 359-361: the reprompt.
GarbageBranch(m) ==
    [m EXCEPT !.response = RepromptText, !.path = "garbage"]

\* Lines 364-367: a hint request.
HintBranch(m, ai) ==
    _give_hint([m EXCEPT !.context.follow_up_attempts = 0,
                         !.path = "hint"], ai)

\* Mutant: the completion branch without the reset of the retry counter.
FinishedBranchNoReset(m, ai) ==
    _ask_follow_up([m EXCEPT !.path = "completion"], ai)

\* Lines 370-373: a completion.
FinishedBranch(m, ai) ==
    _ask_follow_up([m EXCEPT !.context.follow_up_attempts = 0,
                             !.path = "completion"], ai)

\* Lines 375-416: the retry counting, then forced progression or feedback.
DefaultBranch(m, user_input, ai) ==
    LET t == [m EXCEPT !.context.follow_up_attempts = @ + 1,
                       !.increments = @ + 1,
                       !.path = "default"]
    IN  IF RetriesExhausted(t.context)
        THEN _move_on_or_conclude(
                 [t EXCEPT !.context.follow_up_attempts = 0], ai)
        ELSE GiveFeedback(t, user_input, ai)

\* Mutant: the hint test placed before the garbage test.
HandleSolvingHintFirst(m, user_input, ai) ==
    IF user_input \in HintInputs THEN HintBranch(m, ai)
    ELSE IF user_input \in GarbageInputs THEN GarbageBranch(m)
    ELSE IF user_input \in FinishedInputs THEN FinishedBranch(m, ai)
    ELSE DefaultBranch(m, user_input, ai)

_handle_solving_response(m, user_input, ai) ==
    IF user_input \in GarbageInputs THEN GarbageBranch(m)
    ELSE IF user_input \in HintInputs THEN HintBranch(m, ai)
    ELSE IF user_input \in FinishedInputs THEN FinishedBranch(m, ai)
    ELSE DefaultBranch(m, user_input, ai)

_handle_post_hint(m, user_input, ai) ==
    _handle_solving_response([m EXCEPT !.state = "CANDIDATE_SOLVING",
                                       !.phases = @ \cup {"CANDIDATE_SOLVING"}],
                             user_input, ai)

\* Mutant: the next question presented while fewer than 2 were asked.
FollowUpMovesOn(m, user_input, ai) ==
    LET g == Generate(m, ai, "follow_up_response")
        s == _add_to_transcript(g.m, "AI", g.text)
    IN  IF Len(s.context.questions_asked) >= 2
        THEN end_interview(s, ai)
        ELSE _present_question(s, ai)

_handle_follow_up_response(m, user_input, ai) ==
    LET g == Generate(m, ai, "follow_up_response")
        s == _add_to_transcript(g.m, "AI", g.text)
    IN  IF Len(s.context.questions_asked) >= 2
        THEN end_interview(s, ai)
        ELSE [s EXCEPT !.response = g.text]

_generate_contextual_response(m, user_input, ai) ==
    LET g == Generate(m, ai, "contextual")
    IN  [_add_to_transcript(g.m, "AI", g.text) EXCEPT !.response = g.text]

\* Mutant: the session started on the history of the one before.
StartKeepsHistory(m, ai) ==
    LET g == Generate([m EXCEPT !.state = "GREETING",
                                !.phases = @ \cup {"GREETING"},
                                !.reported = "GREETING",
                                !.context = [NewContext EXCEPT
                                                !.start_time = m.now],
                                !.transcript = <<>>],
                      ai, "GREETING_PROMPT")
    IN  [_add_to_transcript(g.m, "AI", g.text) EXCEPT !.response = g.text]

start_interview(m, ai) ==
    LET g == Generate(reset_conversation(
                          [m EXCEPT !.state = "GREETING",
                                    !.phases = @ \cup {"GREETING"},
                                    !.reported = "GREETING",
                                    !.context = [NewContext EXCEPT
                                                    !.start_time = m.now],
                                    !.transcript = <<>>]),
                      ai, "GREETING_PROMPT")
    IN  [_add_to_transcript(g.m, "AI", g.text) EXCEPT !.response = g.text]

process_user_input(m, user_input, current_code, ai) ==
    LET t == [_add_to_transcript(m, "User", user_input) EXCEPT
                  !.context.current_code = current_code]
    IN  CASE t.state = "GREETING" ->
                _handle_greeting_response(t, user_input, ai)
          [] t.state = "TOPIC_SELECTION" ->
                _handle_topic_selection(t, user_input, ai)
          [] t.state = "CANDIDATE_SOLVING" ->
                _handle_solving_response(t, user_input, ai)
          [] t.state = "FOLLOW_UP" ->
                _handle_follow_up_response(t, user_input, ai)
          [] t.state = "GIVING_HINT" ->
                _handle_post_hint(t, user_input, ai)
          [] OTHER ->
                _generate_contextual_response(t, user_input, ai)

\* str(timedelta) for a difference of d whole seconds, less than a minute
\* either way; a negative timedelta is normalised to days = -1.
str_timedelta(d) ==
    LET Digit(n) == <<"0","1","2","3","4","5","6","7","8","9">>[n + 1]
        TwoDigits(n) == <<Digit(n \div 10), Digit(n % 10)>>
    IN  IF d >= 0 THEN <<"0:00:">> \o TwoDigits(d)
        ELSE <<"-1 day, 23:59:">> \o TwoDigits(60 + d)

get_session_summary(m) ==
    [ interview_type  |-> m.context.interview_type,
      questions_asked |-> m.context.questions_asked,
      total_hints     |-> m.context.hints_given,
      duration        |-> IF m.context.end_time # None
                          THEN str_timedelta(m.context.end_time
                                               - m.context.start_time)
                          ELSE <<"In progress">>,
      transcript      |-> m.transcript ]

\* Mutant: the hint button without its test of the phase.
RequestHintAnyPhase(m, ai) == _give_hint(m, ai)

\* Mutant: the message of line 591 recorded in the transcript.
RequestHintRecorded(m, ai) ==
    IF m.state = "CANDIDATE_SOLVING"
    THEN _give_hint(m, ai)
    ELSE [_add_to_transcript(m, "AI", HintsUnavailableText) EXCEPT
                    !.response = HintsUnavailableText]

request_hint(m, ai) ==
    IF m.state = "CANDIDATE_SOLVING"
    THEN _give_hint(m, ai)
    ELSE [m EXCEPT !.response = HintsUnavailableText]

-----------------------------------------------------------------------------
(* Tasks against the state machine *)

Machine ==
    [ state      |-> state,
      context    |-> context,
      transcript |-> transcript,
      conversation_history |-> conversation_history,
      now        |-> now,
      histories  |-> <<>>,
      statuses   |-> <<>>,
      response   |-> <<>>,
      ai_calls   |-> 0,
      prompts    |-> {},
      phases     |-> {},
      reported   |-> "none",
      texts      |-> <<>>,
      hint_level |-> 0,
      increments |-> 0,
      forced     |-> FALSE,
      path       |-> "none" ]

\* The dispatch of InterviewWorker._process_task.
Dispatch(m, action, user_input, code, ai) ==
    CASE action = "start"   -> start_interview(m, ai)
      [] action = "process" -> process_user_input(m, user_input, code, ai)
      [] action = "hint"    -> request_hint(m, ai)
      [] action = "end"     -> end_interview(m, ai)

NoTask ==
    [ action     |-> "none",
      user_input |-> <<>>,
      histories  |-> <<>>,
      statuses   |-> <<>>,
      hints_before |-> 0,
      path       |-> "none",
      phases     |-> {},
      reported   |-> "none",
      ai_calls   |-> 0,
      texts      |-> <<>>,
      hint_level |-> 0,
      increments |-> 0,
      forced     |-> FALSE,
      response   |-> <<>> ]

\* The prompts a Task sends to the service (they do not depend on what
\* the service answers, so any replies serve to find them).
AnyReplies == [p \in Prompts |-> CHOOSE r \in RepliesFor(p) : TRUE]

CallsMade(action, user_input, code) ==
    Dispatch(Machine, action, user_input, code, AnyReplies).prompts

\* What a Task that ran to r leaves behind.
Commit(action, user_input, r) ==
    /\ r.context.hints_given <= MaxHints
    /\ Len(r.context.mistakes) <= MaxMistakes
    /\ state' = r.state
    /\ context' = r.context
    /\ last' = [ action     |-> action,
                 user_input |-> user_input,
                 hints_before |-> context.hints_given,
                 histories  |-> r.histories,
                 statuses   |-> r.statuses,
                 path       |-> r.path,
                 phases     |-> r.phases,
                 reported   |-> r.reported,
                 ai_calls   |-> r.ai_calls,
                 texts      |-> r.texts,
                 hint_level |-> r.hint_level,
                 increments |-> r.increments,
                 forced     |-> r.forced,
                 response   |-> r.response ]

\* One Task run to completion; one reply of the service is drawn for every
\* call the Task makes.
Execute(action, user_input, code) ==
    \E ai \in ReplyChoices(CallsMade(action, user_input, code)) :
        Commit(action, user_input,
               Dispatch(Machine, action, user_input, code, ai))

\* MainWindow queues process, hint and end Tasks only while
\* is_interview_active, which start_interview sets before it queues the
\* start Task: the first Task of all is a start Task.
SessionStarted == state # "IDLE"

\* MainWindow.end_interview clears is_interview_active as it queues the end
\* Task, and the button handlers run one after another on the UI thread: a
\* hint or end Task never follows an end Task directly.  The voice callback
\* runs on its own thread and may queue a process Task after it.
ButtonsLive == last.action # "end"

StartTask == Execute("start", <<>>, <<>>) /\ UNCHANGED <<workerVars, logVars, fbVars, inputVars>>

ProcessTask ==
    /\ SessionStarted
    /\ \E u \in Utterances, code \in CodeSnapshots :
           Execute("process", u, code)
    /\ UNCHANGED <<workerVars, logVars, fbVars, inputVars>>

HintTask ==
    /\ SessionStarted /\ ButtonsLive
    /\ \E code \in CodeSnapshots : Execute("hint", <<>>, code)
    /\ UNCHANGED <<workerVars, logVars, fbVars, inputVars>>

EndTask ==
    /\ SessionStarted /\ ButtonsLive
    /\ Execute("end", <<>>, <<>>)
    /\ UNCHANGED <<workerVars, logVars, fbVars, inputVars>>

\* InterviewStateMachine.__init__
StateMachineInit ==
    /\ state = "IDLE"
    /\ context = NewContext
    /\ last = NoTask


-----------------------------------------------------------------------------
(* InterviewWorker, the MainWindow handlers that feed it, and SimpleTTS.    *)
(* The worker thread, the UI thread, the voice-recognition thread and the   *)
(* speak thread interleave statement by statement; a handler of the UI or   *)
(* of the voice callback is one step.  The state machine is called and      *)
(* returns in two steps; what it returns is text, nothing, or a failure.    *)

NoTaskHeld == [id |-> 0, action |-> "none"]

NothingIgnored == "none"

\* InterviewWorker.__init__, MainWindow.__init__ and SimpleTTS.__init__
WorkerInit ==
    /\ task_queue = <<>>
    /\ running = TRUE
    /\ is_busy = FALSE
    /\ wpc = "while"
    /\ task = NoTaskHeld
    /\ is_interview_active = FALSE
    /\ is_paused = FALSE
    /\ is_mic_muted = FALSE
    /\ window = "open"
    /\ speech_queue = <<>>
    /\ is_speaking = FALSE
    /\ stop_requested = FALSE
    /\ tpc = "none"
    /\ next_id = 1
    /\ executed = <<>>
    /\ sm_in = {}
    /\ spoke = {}
    /\ events = <<>>
    /\ ignored = NothingIgnored
    /\ playing = 0
    /\ played = {}

ownVars == <<running, is_busy, wpc, task, executed, spoke, events>>
uiVars == <<is_interview_active, is_paused, is_mic_muted, window, ignored>>
ttsVars == <<speech_queue, is_speaking, stop_requested, tpc, playing, played>>

\* self.task_queue.append({...})
queue_action(action) ==
    /\ next_id <= MaxTasks
    /\ task_queue' = Append(task_queue, [id |-> next_id, action |-> action])
    /\ next_id' = next_id + 1

(* MainWindow: the UI thread *)

MW_start_interview ==
    /\ window = "open"
    /\ ~is_busy
    /\ is_interview_active' = TRUE
    /\ queue_action("start")
    /\ UNCHANGED <<is_paused, is_mic_muted, window, ignored, ownVars, ttsVars,
                   sm_in>>
    /\ UNCHANGED coreVars

MW_toggle_pause ==
    /\ window = "open"
    /\ is_paused' = ~is_paused
    /\ UNCHANGED <<is_interview_active, is_mic_muted, window, ignored,
                   task_queue, next_id, ownVars, ttsVars, sm_in>>
    /\ UNCHANGED coreVars

MW_on_mic_toggled ==
    /\ window = "open"
    /\ \E is_on \in BOOLEAN : is_mic_muted' = ~is_on
    /\ UNCHANGED <<is_interview_active, is_paused, window, ignored,
                   task_queue, next_id, ownVars, ttsVars, sm_in>>
    /\ UNCHANGED coreVars

\* Mutant: the handler calls the state machine itself instead of queueing.
EndInterviewDirectly ==
    /\ window = "open"
    /\ is_interview_active
    /\ is_interview_active' = FALSE
    /\ sm_in' = sm_in \cup {"ui"}
    /\ UNCHANGED <<is_paused, is_mic_muted, window, ignored, task_queue,
                   next_id, ownVars, ttsVars>>
    /\ UNCHANGED coreVars

\* The confirmation answered Yes; answered No the handler changes nothing.
MW_end_interview ==
    /\ window = "open"
    /\ is_interview_active
    /\ is_interview_active' = FALSE
    /\ queue_action("end")
    /\ UNCHANGED <<is_paused, is_mic_muted, window, ignored, ownVars, ttsVars,
                   sm_in>>
    /\ UNCHANGED coreVars

\* Mutant: the hint queued whatever is_busy reads.
RequestHintWhileBusy ==
    /\ window = "open"
    /\ IF ~is_interview_active
       THEN UNCHANGED <<task_queue, next_id, ignored>>
       ELSE /\ queue_action("hint")
            /\ UNCHANGED ignored
    /\ UNCHANGED <<is_interview_active, is_paused, is_mic_muted, window,
                   ownVars, ttsVars, sm_in>>
    /\ UNCHANGED coreVars

\* if not self.is_interview_active or self.interview_worker.is_busy: return
MW_request_hint ==
    /\ window = "open"
    /\ IF ~is_interview_active \/ is_busy
       THEN /\ ignored' = IF is_busy THEN "hint" ELSE ignored
            /\ UNCHANGED <<task_queue, next_id>>
       ELSE /\ queue_action("hint")
            /\ UNCHANGED ignored
    /\ UNCHANGED <<is_interview_active, is_paused, is_mic_muted, window,
                   ownVars, ttsVars, sm_in>>
    /\ UNCHANGED coreVars

\* closeEvent up to interview_worker.wait(2000)
MW_closeEvent_stop ==
    /\ window = "open"
    /\ running' = FALSE
    /\ window' = "waiting"
    /\ UNCHANGED <<is_interview_active, is_paused, is_mic_muted, ignored,
                   task_queue, next_id, is_busy, wpc, task, executed, spoke,
                   events, ttsVars, sm_in>>
    /\ UNCHANGED coreVars

\* closeEvent after the wait has returned or timed out: tts_engine.stop()
MW_closeEvent_finish ==
    /\ window = "waiting"
    /\ stop_requested' = TRUE
    /\ speech_queue' = <<>>
    /\ window' = "closed"
    /\ UNCHANGED <<is_interview_active, is_paused, is_mic_muted, ignored,
                   task_queue, next_id, ownVars, is_speaking, tpc, playing,
                   played, sm_in>>
    /\ UNCHANGED coreVars

(* MainWindow: the voice-recognition thread *)

\* The three returns of lines 353-364, in their order, and the append.
MW_on_speech_result ==
    /\ window # "closed"
    /\ IF ~is_interview_active \/ is_paused
       THEN UNCHANGED <<task_queue, next_id, ignored>>
       ELSE IF is_mic_muted
       THEN UNCHANGED <<task_queue, next_id, ignored>>
       ELSE IF is_busy
       THEN /\ ignored' = "speech"
            /\ UNCHANGED <<task_queue, next_id>>
       ELSE /\ queue_action("process")
            /\ UNCHANGED ignored
    /\ UNCHANGED <<is_interview_active, is_paused, is_mic_muted, window,
                   ownVars, ttsVars, sm_in>>
    /\ UNCHANGED coreVars

(* InterviewWorker.run *)

\* Mutant: pop() for pop(0).
PopLast(q) ==
    [ item |-> q[Len(q)], rest |-> SubSeq(q, 1, Len(q) - 1) ]

\* task = self.task_queue.pop(0)
Pop(q) == [ item |-> Head(q), rest |-> Tail(q) ]

\* while self.running:
run_while ==
    /\ wpc = "while"
    /\ wpc' = IF running THEN "if" ELSE "stopped"
    /\ UNCHANGED <<running, is_busy, task, executed, spoke, events,
                   task_queue, next_id, uiVars, ttsVars, sm_in>>
    /\ UNCHANGED coreVars

\* if self.task_queue and not self.is_busy: pop(0); else: sleep
run_if ==
    /\ wpc = "if"
    /\ IF task_queue # <<>> /\ ~is_busy
       THEN /\ task' = Pop(task_queue).item
            /\ task_queue' = Pop(task_queue).rest
            /\ executed' = Append(executed, Pop(task_queue).item.id)
            /\ events' = <<>>
            /\ wpc' = "set_busy"
       ELSE /\ wpc' = "while"
            /\ UNCHANGED <<task, task_queue, executed, events>>
    /\ UNCHANGED <<running, is_busy, spoke, next_id, uiVars,
                   ttsVars, sm_in>>
    /\ UNCHANGED coreVars

\* self.is_busy = True
run_set_busy ==
    /\ wpc = "set_busy"
    /\ is_busy' = TRUE
    /\ events' = Append(events, "busy_set")
    /\ wpc' = "call"
    /\ UNCHANGED <<running, task, executed, spoke, task_queue,
                   next_id, uiVars, ttsVars, sm_in>>
    /\ UNCHANGED coreVars

\* self.is_busy = False; self.task_complete.emit()
run_clear_busy ==
    /\ wpc = "clear_busy"
    /\ is_busy' = FALSE
    /\ events' = events \o <<"busy_cleared", "task_complete">>
    /\ wpc' = "while"
    /\ UNCHANGED <<running, task, executed, spoke, task_queue,
                   next_id, uiVars, ttsVars, sm_in>>
    /\ UNCHANGED coreVars

(* InterviewWorker._process_task *)

\* The call of the state-machine entry point the action names.
process_call ==
    /\ wpc = "call"
    /\ sm_in' = sm_in \cup {"worker"}
    /\ events' = Append(events, "call")
    /\ wpc' = "in_sm"
    /\ UNCHANGED <<running, is_busy, task, executed, spoke,
                   task_queue, next_id, uiVars, ttsVars>>
    /\ UNCHANGED coreVars

\* Mutant: a failure of the entry point not caught, ending the worker thread.
ReturnUncaught ==
    /\ wpc = "in_sm"
    /\ sm_in' = sm_in \ {"worker"}
    /\ \E r \in {"text", "empty", "raise"} :
          /\ wpc' = IF r = "text" THEN "speak"
                    ELSE IF r = "empty" THEN "clear_busy" ELSE "stopped"
          /\ events' = IF r = "raise" THEN Append(events, "error_occurred")
                        ELSE events
    /\ UNCHANGED <<running, is_busy, task, executed, spoke, task_queue,
                   next_id, uiVars, ttsVars>>
    /\ UNCHANGED coreVars

\* Mutant: the flag cleared as soon as the response is there.
ReturnClearsBusy ==
    /\ wpc = "in_sm"
    /\ sm_in' = sm_in \ {"worker"}
    /\ is_busy' = FALSE
    /\ \E r \in {"text", "empty", "raise"} :
          /\ wpc' = IF r = "text" THEN "speak" ELSE "clear_busy"
          /\ events' = IF r = "raise" THEN Append(events, "error_occurred")
                        ELSE events
    /\ UNCHANGED <<running, task, executed, spoke, task_queue,
                   next_id, uiVars, ttsVars>>
    /\ UNCHANGED coreVars

\* Its return.  A failure is caught at line 97 and ends the Task; an empty
\* response skips the speech.
process_return ==
    /\ wpc = "in_sm"
    /\ sm_in' = sm_in \ {"worker"}
    /\ \E r \in {"text", "empty", "raise"} :
          /\ wpc' = IF r = "text" THEN "speak" ELSE "clear_busy"
          /\ events' = IF r = "raise" THEN Append(events, "error_occurred")
                        ELSE events
    /\ UNCHANGED <<running, is_busy, task, executed, spoke, task_queue,
                   next_id, uiVars, ttsVars>>
    /\ UNCHANGED coreVars

(* SimpleTTS.speak, called by the worker *)

\* response_ready.emit; speaking_started.emit; self.speech_queue.put(text)
speak_put ==
    /\ wpc = "speak"
    /\ speech_queue' = Append(speech_queue, task.id)
    /\ spoke' = spoke \cup {task.id}
    /\ events' = events \o <<"response_ready", "speaking_started", "speak">>
    /\ wpc' = "speak_if"
    /\ UNCHANGED <<running, is_busy, task, executed, task_queue,
                   next_id, uiVars, is_speaking, stop_requested, tpc,
                   playing, played, sm_in>>
    /\ UNCHANGED coreVars

\* if not self.is_speaking: self._start_speak_thread()
speak_if ==
    /\ wpc = "speak_if"
    /\ IF ~is_speaking /\ tpc \in {"none", "dead"}
       THEN /\ stop_requested' = FALSE
            /\ tpc' = "begin"
       ELSE UNCHANGED <<stop_requested, tpc>>
    /\ wpc' = "wait"
    /\ UNCHANGED <<running, is_busy, task, executed, spoke, events,
                   task_queue, next_id, uiVars, speech_queue, is_speaking,
                   playing, played, sm_in>>
    /\ UNCHANGED coreVars

\* Mutant: wait_until_done returning without the join.
WaitWithoutJoin ==
    /\ wpc = "wait"
    /\ wpc' = "clear_busy"
    /\ UNCHANGED <<running, is_busy, task, executed, spoke, events,
                   task_queue, next_id, uiVars, ttsVars, sm_in>>
    /\ UNCHANGED coreVars

\* if self.speak_thread: self.speak_thread.join(); speaking_finished.emit
wait_until_done ==
    /\ wpc = "wait"
    /\ tpc \in {"none", "dead"}
    /\ events' = events \o <<"wait_until_done", "speaking_finished">>
    /\ wpc' = "clear_busy"
    /\ UNCHANGED <<running, is_busy, task, executed, spoke,
                   task_queue, next_id, uiVars, ttsVars, sm_in>>
    /\ UNCHANGED coreVars

(* Failures of speech synthesis, caught at line 93 *)

\* self.tts_engine.speak(response) raises once the text is queued (the
\* thread cannot be started); except Exception; speaking_finished.emit
speak_raise ==
    /\ wpc = "speak_if"
    /\ events' = events \o <<"tts_error", "speaking_finished">>
    /\ wpc' = "clear_busy"
    /\ UNCHANGED <<running, is_busy, task, executed, spoke,
                   task_queue, next_id, uiVars, ttsVars, sm_in>>
    /\ UNCHANGED coreVars

\* self.tts_engine.wait_until_done() raises; except Exception;
\* speaking_finished.emit
wait_raise ==
    /\ wpc = "wait"
    /\ events' = events \o <<"tts_error", "speaking_finished">>
    /\ wpc' = "clear_busy"
    /\ UNCHANGED <<running, is_busy, task, executed, spoke,
                   task_queue, next_id, uiVars, ttsVars, sm_in>>
    /\ UNCHANGED coreVars

(* SimpleTTS._speak_loop: the speak thread *)

\* self.is_speaking = True
loop_begin ==
    /\ tpc = "begin"
    /\ is_speaking' = TRUE
    /\ tpc' = "while"
    /\ UNCHANGED <<speech_queue, stop_requested, playing, played, ownVars,
                   task_queue, next_id, uiVars, sm_in>>
    /\ UNCHANGED coreVars

\* while not self.stop_requested:
loop_while ==
    /\ tpc = "while"
    /\ tpc' = IF stop_requested THEN "end" ELSE "get"
    /\ UNCHANGED <<speech_queue, is_speaking, stop_requested, playing,
                   played, ownVars, task_queue, next_id, uiVars, sm_in>>
    /\ UNCHANGED coreVars

\* text = self.speech_queue.get(timeout=0.5); except queue.Empty: break
loop_get ==
    /\ tpc = "get"
    /\ IF speech_queue # <<>>
       THEN /\ playing' = Head(speech_queue)
            /\ speech_queue' = Tail(speech_queue)
            /\ tpc' = "play"
       ELSE /\ tpc' = "end"
            /\ UNCHANGED <<playing, speech_queue>>
    /\ UNCHANGED <<is_speaking, stop_requested, played, ownVars, task_queue,
                   next_id, uiVars, sm_in>>
    /\ UNCHANGED coreVars

\* engine.say(text); engine.runAndWait() has returned
loop_play ==
    /\ tpc = "play"
    /\ played' = played \cup {playing}
    /\ playing' = 0
    /\ tpc' = "while"
    /\ UNCHANGED <<speech_queue, is_speaking, stop_requested, ownVars,
                   task_queue, next_id, uiVars, sm_in>>
    /\ UNCHANGED coreVars

\* self.is_speaking = False
loop_end ==
    /\ tpc = "end"
    /\ is_speaking' = FALSE
    /\ tpc' = "dead"
    /\ UNCHANGED <<speech_queue, stop_requested, playing, played, ownVars,
                   task_queue, next_id, uiVars, sm_in>>
    /\ UNCHANGED coreVars

-----------------------------------------------------------------------------
(* The specifications *)

\* Nothing said, nothing sent, and a first reading of the clock.
LogInit ==
    /\ transcript = <<>>
    /\ conversation_history = <<>>
    /\ now = 1

\* No feedback response under reading.
FeedbackIdle ==
    /\ fb_response = <<>>
    /\ fb_result = <<>>

\* No input singled out.
InputsIdle ==
    /\ heard = <<>>
    /\ generated = <<>>
    /\ extracted = <<>>
    /\ said = 0

Init == StateMachineInit /\ WorkerInit /\ LogInit /\ FeedbackIdle /\ InputsIdle

\* The state machine, Task by Task.
Next ==
    \/ StartTask
    \/ ProcessTask
    \/ HintTask
    \/ EndTask

Spec == Init /\ [][Next]_vars

\* The worker, its producers and the speak thread.
WorkerNext ==
    \/ MW_start_interview
    \/ MW_toggle_pause
    \/ MW_on_mic_toggled
    \/ MW_end_interview
    \/ MW_request_hint
    \/ MW_closeEvent_stop
    \/ MW_closeEvent_finish
    \/ MW_on_speech_result
    \/ run_while
    \/ run_if
    \/ run_set_busy
    \/ run_clear_busy
    \/ process_call
    \/ process_return
    \/ speak_put
    \/ speak_if
    \/ wait_until_done
    \/ loop_begin
    \/ loop_while
    \/ loop_get
    \/ loop_play
    \/ loop_end

WorkerSpec == Init /\ [][WorkerNext]_vars

\* QThread runs InterviewWorker.run and threading.Thread runs _speak_loop:
\* a thread that can take a step eventually takes one.
WorkerThread ==
    \/ run_while
    \/ run_if
    \/ run_set_busy
    \/ run_clear_busy
    \/ process_call
    \/ process_return
    \/ speak_put
    \/ speak_if
    \/ wait_until_done

SpeakThread ==
    \/ loop_begin
    \/ loop_while
    \/ loop_get
    \/ loop_play
    \/ loop_end

FairWorkerSpec ==
    WorkerSpec /\ WF_vars(WorkerThread) /\ WF_vars(SpeakThread)

\* The worker with failing speech synthesis, in a window that stays open:
\* the producers that queue Tasks, the worker and the speak thread.
FaultyNext ==
    \/ MW_start_interview
    \/ MW_end_interview
    \/ MW_request_hint
    \/ MW_on_speech_result
    \/ WorkerThread
    \/ speak_raise
    \/ wait_raise
    \/ SpeakThread

FaultySpec ==
    /\ Init
    /\ [][FaultyNext]_vars
    /\ WF_vars(WorkerThread \/ speak_raise \/ wait_raise)
    /\ WF_vars(SpeakThread)

-----------------------------------------------------------------------------
(* Steps of Spec: a process Task met in CandidateSolving, and the class of  *)
(* its utterance.                                                           *)

SolvingStep ==
    /\ state = "CANDIDATE_SOLVING"
    /\ last'.action = "process"

IsGarbage(u) == u \in GarbageInputs

IsHint(u) == u \in HintInputs

IsFinished(u) == u \in FinishedInputs

IsDefault(u) == ~IsGarbage(u) /\ ~IsHint(u) /\ ~IsFinished(u)

-----------------------------------------------------------------------------
(* C5 *)

\* C5: a process Task in CandidateSolving executes the increment of
\* follow_up_attempts once if and only if its utterance is not garbage, not
\* a hint request and not a completion; a detected hint request or
\* completion leaves the counter at 0; and the forced progression is entered
\* exactly by the Task whose increment brings the counter to max_retries (5):
\* a Task that increments and stays below leaves the counter one higher.
C5_IncrementResetForce ==
    [][SolvingStep =>
        LET u == last'.user_input
            before == context.follow_up_attempts
        IN  /\ last'.increments = (IF IsDefault(u) THEN 1 ELSE 0)
            /\ (~IsGarbage(u) /\ (IsHint(u) \/ IsFinished(u)))
                   => context'.follow_up_attempts = 0
            /\ last'.forced <=> (IsDefault(u) /\ before + 1 = 5)
            /\ (IsDefault(u) /\ before + 1 < 5)
                   => context'.follow_up_attempts = before + 1
            /\ last'.forced => context'.follow_up_attempts = 0
    ]_vars

\* The fifth default utterance in a row has forced the progression.
C5_Witness ==
    /\ last.action = "process"
    /\ last.path = "default"
    /\ last.forced
    /\ last.increments = 1
    /\ context.follow_up_attempts = 0

-----------------------------------------------------------------------------
(* C6 *)

\* C6: between Tasks follow_up_attempts is at least 0 and below max_retries
\* (5), whatever start, process, hint and end Tasks were executed.
C6_AttemptsBounded ==
    /\ context.follow_up_attempts >= 0
    /\ context.follow_up_attempts < 5
    /\ context.max_retries = 5

\* Four default utterances in a row: the counter stands at 4.
C6_Witness ==
    /\ state = "CANDIDATE_SOLVING"
    /\ context.follow_up_attempts = 4

-----------------------------------------------------------------------------
(* C7 *)

\* C7: after a hint has been given in CandidateSolving, by a hint utterance
\* (process Task) or by the hint Task of the UI button (request_hint),
\* follow_up_attempts is 0.
C7_HintResetsAttempts ==
    [][(/\ state = "CANDIDATE_SOLVING"
        /\ \/ last'.action = "hint"
           \/ last'.action = "process" /\ last'.path = "hint"
        /\ context'.hints_given = context.hints_given + 1)
       => context'.follow_up_attempts = 0
    ]_vars

-----------------------------------------------------------------------------
(* C8 *)

\* C8: a process Task in CandidateSolving whose utterance the garbage
\* classifier accepts returns the fixed reprompt, makes no call of the
\* generative service and leaves the phase, follow_up_attempts, hints_given,
\* questions_asked, mistakes and current_question as they were.
C8_GarbageFrame ==
    [][(SolvingStep /\ IsGarbage(last'.user_input)) =>
        /\ last'.response = RepromptText
        /\ last'.ai_calls = 0
        /\ state' = state
        /\ context'.follow_up_attempts = context.follow_up_attempts
        /\ context'.hints_given = context.hints_given
        /\ context'.questions_asked = context.questions_asked
        /\ context'.mistakes = context.mistakes
        /\ context'.current_question = context.current_question
    ]_vars

\* A garbage utterance was answered while the retry counter was running.
C8_Witness ==
    /\ state = "CANDIDATE_SOLVING"
    /\ last.action = "process"
    /\ IsGarbage(last.user_input)
    /\ last.response = RepromptText
    /\ context.follow_up_attempts > 0
    /\ context.mistakes # <<>>

-----------------------------------------------------------------------------
(* C9 *)

\* Every noise word, in any letter case and with whitespace around it, is
\* garbage to the classifier.
AllNoiseIsGarbage == \A u \in NoiseVariants : _is_garbage_input(u)

\* C9 as stated: every noise word in any case and padding is garbage, and in
\* Greeting, CandidateSolving and FollowUp alike a process Task with such an
\* utterance is answered with the fixed reprompt and without a call of the
\* generative service.
C9_RepromptInEveryPhase ==
    [][(/\ last'.action = "process"
        /\ state \in {"GREETING", "CANDIDATE_SOLVING", "FOLLOW_UP"}
        /\ last'.user_input \in NoiseVariants)
       => /\ AllNoiseIsGarbage
          /\ last'.response = RepromptText
          /\ last'.ai_calls = 0
    ]_vars

\* C9, amended: every noise word in any case and padding is garbage, and in
\* CandidateSolving a process Task with such an utterance is answered with
\* the fixed reprompt and without a call of the generative service.
C9_RepromptInSolving ==
    [][(/\ last'.action = "process"
        /\ last'.user_input \in NoiseVariants)
       => /\ AllNoiseIsGarbage
          /\ state = "CANDIDATE_SOLVING"
                => /\ last'.response = RepromptText
                   /\ last'.ai_calls = 0
    ]_vars

\* A padded, mixed-case noise word was answered with the reprompt.
C9_Witness ==
    /\ state = "CANDIDATE_SOLVING"
    /\ last.action = "process"
    /\ last.user_input \in NoiseVariants
    /\ last.user_input \notin NoiseWords
    /\ last.response = RepromptText
    /\ last.ai_calls = 0

-----------------------------------------------------------------------------
(* C10 *)

\* What each branch of the CandidateSolving handling does, as the Task shows
\* it: the reprompt; a hint; the follow-up question; the retry counting.
TookGarbagePath ==
    /\ last'.path = "garbage"
    /\ last'.response = RepromptText /\ last'.ai_calls = 0
    /\ context'.hints_given = context.hints_given /\ last'.increments = 0
    /\ state' = "CANDIDATE_SOLVING"

TookHintPath ==
    /\ last'.path = "hint"
    /\ context'.hints_given = context.hints_given + 1
    /\ last'.increments = 0
    /\ state' = "CANDIDATE_SOLVING"

TookCompletionPath ==
    /\ last'.path = "completion"
    /\ context'.hints_given = context.hints_given
    /\ last'.increments = 0
    /\ state' = "FOLLOW_UP"

TookDefaultPath ==
    /\ last'.path = "default"
    /\ last'.increments = 1

\* C10: CandidateSolving handling takes exactly one branch, the first that
\* matches in the order garbage, hint request, completion, default.
C10_Precedence ==
    [][SolvingStep =>
        LET u == last'.user_input
        IN  /\ IsGarbage(u) => TookGarbagePath
            /\ (~IsGarbage(u) /\ IsHint(u)) => TookHintPath
            /\ (~IsGarbage(u) /\ ~IsHint(u) /\ IsFinished(u))
                   => TookCompletionPath
            /\ IsDefault(u) => TookDefaultPath
    ]_vars

\* An utterance that is a hint request and a completion took the hint path.
C10_Witness ==
    /\ last.action = "process"
    /\ IsHint(last.user_input) /\ IsFinished(last.user_input)
    /\ ~IsGarbage(last.user_input)
    /\ last.path = "hint"
    /\ state = "CANDIDATE_SOLVING"

-----------------------------------------------------------------------------
(* C4: a session that is started once and then keeps receiving process      *)
(* Tasks whose utterances are neither garbage nor hint requests.            *)

SteadyUtterances == {u \in Utterances : ~IsGarbage(u) /\ ~IsHint(u)}

SessionStart ==
    /\ state = "IDLE"
    /\ StartTask

SteadyProcess ==
    /\ state # "IDLE"
    /\ \E u \in SteadyUtterances, code \in CodeSnapshots :
           Execute("process", u, code)
    /\ UNCHANGED <<workerVars, logVars, fbVars, inputVars>>

SessionNext ==
    \/ SessionStart
    \/ SteadyProcess

\* The process Tasks keep coming: weak fairness of SteadyProcess.
SessionSpec == Init /\ [][SessionNext]_vars /\ WF_vars(SteadyProcess)

\* C4: after start_interview, a session that keeps receiving process Tasks
\* whose utterances are neither garbage nor hint requests eventually reaches
\* the Ended phase.
C4_EventuallyEnded == (state # "IDLE") ~> (state = "ENDED")

-----------------------------------------------------------------------------
(* Claims about the worker, under WorkerSpec and FairWorkerSpec *)

RECURSIVE Ids(_)
Ids(q) == IF q = <<>> THEN <<>> ELSE <<Head(q).id>> \o Ids(Tail(q))

RECURSIVE UpTo(_)
UpTo(n) == IF n = 0 THEN <<>> ELSE Append(UpTo(n - 1), n)

\* The worker holds a Task it has dequeued and not yet completed.
Executing == wpc \in {"set_busy", "call", "in_sm", "speak", "speak_if",
                      "wait", "clear_busy"}

\* C1: the worker never begins a Task while is_busy is true, and the only
\* thread ever inside a state-machine entry point is the worker, so at most
\* one entry point runs at a time and it runs for the one Task the busy
\* worker holds.
C1_OneTaskAtATime ==
    /\ [](/\ sm_in \subseteq {"worker"}
          /\ Cardinality(sm_in) <= 1
          /\ (sm_in # {} => is_busy /\ wpc = "in_sm")
          /\ (is_busy => Executing))
    /\ [][executed' # executed => ~is_busy /\ ~Executing]_vars

\* A producer has queued a Task while the worker is inside the state machine
\* for another.
C1_Witness ==
    /\ sm_in = {"worker"}
    /\ task_queue # <<>>
    /\ task.id = 2

\* C2: the Tasks dequeued so far followed by the Tasks still queued are the
\* Tasks appended, each once and in the order of appending; and while the
\* worker keeps running every Task appended is eventually dequeued.
C2_ExactlyOnceFifo ==
    /\ [](executed \o Ids(task_queue) = UpTo(next_id - 1))
    /\ \A i \in 1..MaxTasks :
          (next_id > i) ~> (~running \/ (Len(executed) >= i /\ executed[i] = i))

\* Two Tasks were queued together and both have been executed.
C2_Witness ==
    /\ Len(executed) >= 3
    /\ is_interview_active
    /\ running

\* C3: when the worker has dequeued a Task and until it has the response,
\* no response is being played, the speak thread is not alive, nothing waits
\* to be spoken, and every response passed to speak() by an earlier Task has
\* been played to its end.
C3_SpeechBeforeNextTask ==
    wpc \in {"set_busy", "call", "in_sm"} =>
        /\ playing = 0
        /\ tpc \in {"none", "dead"}
        /\ speech_queue = <<>>
        /\ spoke \subseteq played

\* The worker is inside the state machine for a Task whose predecessor's
\* response was spoken.
C3_Witness ==
    /\ wpc = "in_sm"
    /\ task.id - 1 \in played


-----------------------------------------------------------------------------
(* Claims about questions, hints and mistakes, under Spec *)

\* s is an initial segment of t.
IsPrefix(s, t) == Len(s) <= Len(t) /\ SubSeq(t, 1, Len(s)) = s

\* C11: a Task that enters forced progression with fewer than 2 questions
\* asked ends in CandidateSolving with one more question asked, hints_given
\* 0 and follow_up_attempts 0; with 2 questions asked it ends in Ended with
\* end_time stamped.
C11_ForcedProgression ==
    [][ last'.forced =>
          IF Len(context.questions_asked) < 2
          THEN /\ state' = "CANDIDATE_SOLVING"
               /\ Len(context'.questions_asked)
                    = Len(context.questions_asked) + 1
               /\ IsPrefix(context.questions_asked, context'.questions_asked)
               /\ context'.hints_given = 0
               /\ context'.follow_up_attempts = 0
          ELSE /\ state' = "ENDED"
               /\ context'.end_time # None
               /\ context'.questions_asked = context.questions_asked ]_vars

\* Forced progression has ended the interview, after the forced progression
\* that presented the second question.
C11_Witness ==
    /\ last.forced
    /\ state = "ENDED"
    /\ Len(context.questions_asked) = 2

\* C12: questions_asked never holds more than 2 titles, and a Task other
\* than start only appends to it.
C12_AtMostTwoQuestions ==
    /\ [](Len(context.questions_asked) <= 2)
    /\ [][ last'.action # "start" =>
             IsPrefix(context.questions_asked, context'.questions_asked) ]_vars

\* Two questions have been asked and the session goes on.
C12_Witness ==
    /\ Len(context.questions_asked) = 2
    /\ state = "FOLLOW_UP"


\* A process Task executed in Greeting.
GreetingStep == state = "GREETING" /\ last'.action = "process"

\* What the Greeting Task leaves apart from current_question.
GreetingOutcome ==
    /\ state' = "CANDIDATE_SOLVING"
    /\ context'.interview_type = InterviewTypeOf[last'.user_input]
    /\ Len(context'.questions_asked) = 1
    /\ context'.hints_given = 0

\* C13 as stated: the Greeting Task sets interview_type and presents a
\* question, leaving CandidateSolving, one title, hints_given 0 and a
\* non-empty current_question whatever the service returned; the phase
\* never rests in TopicSelection.
C13_GreetingPresentsQuestion ==
    /\ [](state # "TOPIC_SELECTION")
    /\ [][ GreetingStep =>
             GreetingOutcome /\ context'.current_question # <<>> ]_vars

\* C13 amended: as above, with current_question being the generated text
\* without its '---' delimiters and surrounding whitespace, which is empty
\* when the text holds nothing else.
C13_GreetingStoresParsedQuestion ==
    /\ [](state # "TOPIC_SELECTION")
    /\ [][ GreetingStep =>
             /\ GreetingOutcome
             /\ context'.current_question =
                  Strip(RemoveAll(last'.texts["QUESTION_PROMPT"],
                                  SectionDelimiter)) ]_vars

\* The Greeting Task has presented the first question.
C13_Witness ==
    /\ state = "CANDIDATE_SOLVING"
    /\ last.action = "process" /\ ~last.forced
    /\ "QUESTION_PROMPT" \in DOMAIN last.texts
    /\ Len(context.questions_asked) = 1
    /\ context.current_question # <<>>


\* A Task that gives a hint in CandidateSolving: a hint Task, or a process
\* Task that took the hint branch.
HintStep ==
    /\ state = "CANDIDATE_SOLVING"
    /\ \/ last'.action = "hint"
       \/ last'.action = "process" /\ last'.path = "hint"

\* C14: a hint given in CandidateSolving increments hints_given by exactly
\* 1, is requested at level min(hints_given, 3), which is 1, 2 or 3, makes
\* exactly one generative call and leaves the phase at CandidateSolving.
C14_HintLevel ==
    [][ HintStep =>
          /\ context'.hints_given = context.hints_given + 1
          /\ last'.hint_level = Min(context'.hints_given, 3)
          /\ last'.hint_level \in 1..3
          /\ last'.ai_calls = 1
          /\ DOMAIN last'.texts = {"HINT_PROMPT"}
          /\ state' = "CANDIDATE_SOLVING" ]_vars

\* The fourth hint of a question has been given, at level 3.
C14_Witness ==
    /\ last.action \in {"hint", "process"}
    /\ last.hint_level = 3
    /\ context.hints_given = 4


\* A Task in which _present_question ran.
QuestionPresented == "QUESTION_PROMPT" \in DOMAIN last'.texts

\* A Task that started a session.
SessionRestarted == last'.action = "start"

\* C15: hints_given is 0 after every Task that presents a question or starts
\* a session; every other Task leaves the current question as it is and
\* does not lower hints_given.
C15_HintsMonotone ==
    [][ /\ (QuestionPresented \/ SessionRestarted)
            => context'.hints_given = 0
        /\ ~(QuestionPresented \/ SessionRestarted)
            => /\ context'.hints_given >= context.hints_given
               /\ context'.current_question = context.current_question
      ]_vars

\* The second question has been presented after hints on the first.
C15_Witness ==
    /\ "QUESTION_PROMPT" \in DOMAIN last.texts
    /\ Len(context.questions_asked) = 2
    /\ last.hints_before > 0
    /\ context.hints_given = 0


\* A Task that appended to context.mistakes.
MistakeAppended == Len(context'.mistakes) > Len(context.mistakes)

\* A process Task that took the default path in CandidateSolving and asked
\* the service for feedback.
FeedbackStep ==
    /\ state = "CANDIDATE_SOLVING"
    /\ last'.action = "process"
    /\ last'.path = "default"
    /\ "FEEDBACK_PROMPT" \in DOMAIN last'.texts

\* The feedback response of the Task begins with the tag, in any letter case.
FeedbackBeginsWith(tag) ==
    IsPrefix(tag, Upper(last'.texts["FEEDBACK_PROMPT"]))

\* C16: a Task appends to mistakes only if it is a default-path process Task
\* in CandidateSolving whose feedback response begins with the WRONG tag;
\* such a Task appends exactly one record, holding the utterance as the
\* wrong answer; no other Task appends.
C16_MistakesOnlyWhenTaggedWrong ==
    [][ /\ MistakeAppended => FeedbackStep /\ FeedbackBeginsWith(WrongTag)
        /\ (FeedbackStep /\ FeedbackBeginsWith(WrongTag))
            => /\ Len(context'.mistakes) = Len(context.mistakes) + 1
               /\ IsPrefix(context.mistakes, context'.mistakes)
               /\ context'.mistakes[Len(context'.mistakes)].wrong_answer
                    = last'.user_input
      ]_vars


-----------------------------------------------------------------------------
(* The reading of a feedback response, as a function of the response *)

\* Every spelling of w in upper, lower or mixed case.
RECURSIVE Spellings(_)
Spellings(w) ==
    IF w = <<>> THEN {<<>>}
    ELSE {<<c>> \o r : c \in {LowerChar(Head(w)), UpperChar(Head(w))},
                       r \in Spellings(Tail(w))}

\* [CORRECT], [WRONG] and [UNCLEAR].
FeedbackTags == {DisplayTags[k] : k \in 1..3}

\* What follows the tag in the responses read.
FeedbackBodies == { <<" ","n","o">> }

\* The responses read: a tag in any spelling, then a body.
TaggedResponses ==
    {s \o b : s \in UNION {Spellings(tag) : tag \in FeedbackTags},
              b \in FeedbackBodies}

FeedbackInit ==
    /\ StateMachineInit /\ WorkerInit /\ LogInit
    /\ fb_response \in TaggedResponses
    /\ fb_result = <<>>
    /\ InputsIdle

\* Lines 396-413 run on the response.
ReadFeedbackStep ==
    /\ fb_result = <<>>
    /\ fb_result' = <<ReadFeedback(fb_response)>>
    /\ UNCHANGED <<fb_response, smVars, logVars, workerVars, inputVars>>

FeedbackSpec == FeedbackInit /\ [][ReadFeedbackStep]_vars

\* text holds a bracketed tag in some letter case.
HoldsTag(text) == \E tag \in FeedbackTags : Contains(Upper(text), tag)

\* response without the tag it begins with and the whitespace around.
Untagged(response, tag) ==
    Strip(SubSeq(response, Len(tag) + 1, Len(response)))

\* C17: for a feedback response that begins with a CORRECT, WRONG or UNCLEAR
\* tag in any letter case, the text returned holds no bracketed tag, and for
\* a WRONG tag the correction stored is the response without the tag and
\* the whitespace around it.
C17_TagsStripped ==
    fb_result # <<>> =>
        /\ ~HoldsTag(fb_result[1].display)
        /\ IsPrefix(WrongTag, Upper(fb_response)) =>
              /\ fb_result[1].wrong
              /\ fb_result[1].correction = Untagged(fb_response, WrongTag)


-----------------------------------------------------------------------------
(* The Tasks with what they write followed: transcript, history and clock. *)
(* No handler reads any of the three, so Spec leaves them out and follows  *)
(* the phase and the counters for more utterances; here they are followed  *)
(* for fewer.                                                              *)

\* The utterances said here: one that is none of the classes, a completion.
LogUtterances ==
    { <<"c","o","d","i","n","g">>, <<"d","o","n","e">> }

\* What a Task that ran to r leaves behind, the written-only part included.
CommitWithLog(action, user_input, r) ==
    /\ Commit(action, user_input, r)
    /\ Len(r.transcript) <= MaxTranscript
    /\ transcript' = r.transcript
    /\ conversation_history' = r.conversation_history
    /\ UNCHANGED <<now, fbVars, inputVars, workerVars>>

ExecuteWithLog(action, user_input, code) ==
    \E ai \in RepliesOrFailures(CallsMade(action, user_input, code)) :
        CommitWithLog(action, user_input,
                      Dispatch(Machine, action, user_input, code, ai))

LogStartTask == ExecuteWithLog("start", <<>>, <<>>)

LogProcessTask ==
    /\ SessionStarted
    /\ \E u \in LogUtterances, code \in CodeSnapshots :
           ExecuteWithLog("process", u, code)

LogHintTask ==
    /\ SessionStarted /\ ButtonsLive
    /\ \E code \in CodeSnapshots : ExecuteWithLog("hint", <<>>, code)

LogEndTask ==
    /\ SessionStarted /\ ButtonsLive
    /\ ExecuteWithLog("end", <<>>, <<>>)

\* Time passes between two Tasks; datetime.now() is taken never to go back.
Tick ==
    /\ now < MaxClock
    /\ now' = now + 1
    /\ UNCHANGED <<smVars, transcript, conversation_history, fbVars, inputVars,
                   workerVars>>

LogNext == LogStartTask \/ LogProcessTask \/ LogHintTask \/ LogEndTask \/ Tick

LogSpec == Init /\ [][LogNext]_vars

\* A step that is a start Task (the clock stands while a Task runs).
StartStep == last'.action = "start" /\ now' = now

\* C18: a start Task, in whatever phase it runs, leaves the phase at
\* Greeting, the context as a new one but for the stamped start_time
\* (questions_asked and mistakes empty, hints_given and follow_up_attempts
\* 0, end_time unset), the transcript holding the new greeting only, and
\* the greeting was generated on an empty conversation history; the history
\* stored afterwards holds at most the greeting's exchange.
C18_StartIsFresh ==
    [][ StartStep =>
          /\ state' = "GREETING"
          /\ context' = [NewContext EXCEPT !.start_time = now']
          /\ context'.start_time # None
          /\ context'.end_time = None
          /\ context'.questions_asked = <<>> /\ context'.mistakes = <<>>
          /\ context'.hints_given = 0 /\ context'.follow_up_attempts = 0
          /\ Len(transcript') = 1
          /\ transcript'[1].speaker = "AI"
          /\ transcript'[1].text = last'.response
          /\ last'.histories = ("GREETING_PROMPT" :> <<>>)
          /\ \/ conversation_history' = <<>>
             \/ /\ Len(conversation_history') = 2
                /\ conversation_history'[1].content = <<"GREETING_PROMPT">>
      ]_vars

\* A session started over one in which hints had been given.
C18_Witness ==
    /\ last.action = "start"
    /\ last.hints_before > 0
    /\ Len(transcript) = 1
    /\ state = "GREETING"

\* end_interview has run in the session.
EndInterviewHasRun ==
    \/ context.end_time # None
    \/ "CLOSING_PROMPT" \in DOMAIN last.texts

\* C19: in every state in which end_interview has run in the session, the
\* phase is Ended, end_time is stamped, and the duration of the session
\* summary is that of end_time - start_time, which is not negative.
C19_EndedAndTimed ==
    EndInterviewHasRun =>
        /\ state = "ENDED"
        /\ context.end_time # None
        /\ context.start_time # None
        /\ context.end_time - context.start_time >= 0
        /\ get_session_summary(Machine).duration
             = str_timedelta(context.end_time - context.start_time)

\* A session ended at a later reading of the clock than it started.
C19_Witness ==
    /\ state = "ENDED"
    /\ context.start_time # None
    /\ context.end_time > context.start_time


-----------------------------------------------------------------------------
(* Claims about the end of a session, under Spec *)

\* C20: a process, hint or end Task that runs in Ended leaves the phase at
\* Ended and questions_asked, hints_given, follow_up_attempts and mistakes
\* as they were; a Task after which the phase is no longer Ended is a start
\* Task.
C20_EndedIsTerminal ==
    [][ state = "ENDED" =>
          /\ last'.action \in {"process", "hint", "end"} =>
                /\ state' = "ENDED"
                /\ context'.questions_asked = context.questions_asked
                /\ context'.hints_given = context.hints_given
                /\ context'.follow_up_attempts = context.follow_up_attempts
                /\ context'.mistakes = context.mistakes
          /\ state' # "ENDED" => last'.action = "start"
      ]_vars

\* A hint Task has run in Ended, after both questions.
C20_Witness ==
    /\ state = "ENDED"
    /\ last.action = "hint"
    /\ Len(context.questions_asked) = 2
    /\ last.response = HintsUnavailableText


-----------------------------------------------------------------------------
(* Claims about the generative-service wrapper, under LogSpec *)

\* The calls of the Task that failed.
FailedCalls ==
    {p \in DOMAIN last'.statuses : last'.statuses[p] \in FailureKinds}

\* The literal generate_response returns for a failure.
FallbackOf(kind) ==
    CASE kind = "timeout"    -> TimeoutFallback
      [] kind = "http_error" -> HttpErrorFallback
      [] kind = "exception"  -> ExceptionFallback

\* Every call answered with status 200, whatever the content.
SuccessfulReplies ==
    { [p \in Prompts |->
          [status  |-> "ok",
           content |-> CASE p = "FEEDBACK_PROMPT" -> f
                         [] p = "QUESTION_PROMPT" -> q
                         [] OTHER -> <<>>]] :
      f \in FeedbackContents, q \in QuestionContents }

\* The history a Task builds on: start_interview clears it first.
HistoryBase ==
    IF last'.action = "start" THEN <<>> ELSE conversation_history

\* C21: a Task with a failed call (timeout, non-200 reply, any other
\* exception) gets the fixed non-empty fallback text for that call, stores
\* nothing of it in the conversation history (only the exchanges of its
\* successful calls are appended), and ends in the phase it would have
\* ended in had every call succeeded.
C21_FailureDegrades ==
    [][ (now' = now /\ FailedCalls # {}) =>
          /\ \A p \in FailedCalls :
                /\ last'.texts[p] = FallbackOf(last'.statuses[p])
                /\ last'.texts[p] # <<>>
          /\ IsPrefix(HistoryBase, conversation_history')
          /\ Len(conversation_history')
               = Len(HistoryBase)
                   + 2 * Cardinality(DOMAIN last'.statuses \ FailedCalls)
          /\ \A i \in (Len(HistoryBase) + 1)..Len(conversation_history') :
                conversation_history'[i].role = "user"
                  => conversation_history'[i].content[1] \notin FailedCalls
          /\ \A ai \in SuccessfulReplies, code \in CodeSnapshots :
                state' = Dispatch(Machine, last'.action, last'.user_input,
                                  code, ai).state
      ]_vars

\* A process Task whose call got a non-200 reply, on a history that holds
\* earlier exchanges.
C21_Witness ==
    /\ last.action = "process"
    /\ \E p \in DOMAIN last.statuses : last.statuses[p] = "http_error"
    /\ conversation_history # <<>>
    /\ state = "CANDIDATE_SOLVING"


-----------------------------------------------------------------------------
(* A long conversation: a session is started, a question presented and     *)
(* completed, and the candidate keeps answering in FollowUp, where every   *)
(* process Task makes one call more.                                       *)

\* What the candidate says, by phase: done while solving, else an answer.
TalkUtterance ==
    IF state = "CANDIDATE_SOLVING" THEN <<"d","o","n","e">>
    ELSE <<"c","o","d","i","n","g">>

TalkCommit(action, user_input, r) ==
    /\ Commit(action, user_input, r)
    /\ Len(r.conversation_history) <= MaxHistory
    /\ Len(r.transcript) <= MaxHistory + 3
    /\ transcript' = r.transcript
    /\ conversation_history' = r.conversation_history
    /\ UNCHANGED <<now, fbVars, inputVars, workerVars>>

TalkStart ==
    \E ai \in ReplyChoices(CallsMade("start", <<>>, <<>>)) :
        TalkCommit("start", <<>>, Dispatch(Machine, "start", <<>>, <<>>, ai))

TalkProcess ==
    /\ SessionStarted
    /\ \E code \in CodeSnapshots :
       \E ai \in ReplyChoices(CallsMade("process", TalkUtterance, code)) :
           TalkCommit("process", TalkUtterance,
                      Dispatch(Machine, "process", TalkUtterance, code, ai))

HistoryNext == TalkStart \/ TalkProcess

HistorySpec == Init /\ [][HistoryNext]_vars

\* supplied is the last 20 entries of stored, or all of them if fewer, in
\* their order.
IsRecentPart(supplied, stored) ==
    /\ Len(supplied) = Min(20, Len(stored))
    /\ \A i \in 1..Len(supplied) :
          supplied[i] = stored[Len(stored) - Len(supplied) + i]

\* C22: the history sent with each call of a Task is the last 20 entries at
\* most of the history stored when the call is made, in their order; the
\* Task appends one user entry and one assistant entry for each successful
\* call and nothing else; the call of a start Task is sent an empty history.
C22_HistoryWindow ==
    [][ /\ \A p \in DOMAIN last'.histories :
              /\ Len(last'.histories[p]) <= 20
              /\ \E n \in Len(HistoryBase)..Len(conversation_history') :
                    IsRecentPart(last'.histories[p],
                                 SubSeq(conversation_history', 1, n))
        /\ Cardinality(DOMAIN last'.histories) = 1
              => \A p \in DOMAIN last'.histories :
                    IsRecentPart(last'.histories[p], HistoryBase)
        /\ IsPrefix(HistoryBase, conversation_history')
        /\ Len(conversation_history')
             = Len(HistoryBase)
                 + 2 * Cardinality({p \in DOMAIN last'.statuses :
                                       last'.statuses[p] = "ok"})
        /\ \A i \in (Len(HistoryBase) + 1)..Len(conversation_history') :
              conversation_history'[i].role
                = IF (i - Len(HistoryBase)) % 2 = 1 THEN "user"
                  ELSE "assistant"
        /\ last'.action = "start"
              => last'.histories = ("GREETING_PROMPT" :> <<>>)
      ]_vars

\* A call has been made on a stored history of more than 20 entries.
C22_Witness ==
    /\ Len(conversation_history) = 24
    /\ \E p \in DOMAIN last.histories :
          /\ Len(last.histories[p]) = 20
          /\ last.statuses[p] = "ok"
          /\ last.histories[p] = SubSeq(conversation_history, 3, 22)


-----------------------------------------------------------------------------
(* The answer to the greeting, one utterance at a time *)

TopicInit ==
    /\ StateMachineInit /\ WorkerInit /\ LogInit /\ FeedbackIdle
    /\ heard \in TopicUtterances
    /\ generated = <<>>
    /\ extracted = <<>>
    /\ said = 0

TopicStart ==
    /\ state = "IDLE"
    /\ StartTask

TopicGreeting ==
    /\ state = "GREETING"
    /\ \E code \in CodeSnapshots : Execute("process", heard, code)
    /\ UNCHANGED <<workerVars, logVars, fbVars, inputVars>>

TopicNext == TopicStart \/ TopicGreeting

TopicSpec == TopicInit /\ [][TopicNext]_vars

\* kw is a substring of the utterance, letter case apart.
Mentions(kw) == Contains(Lower(heard), kw)

\* The utterance holds a keyword of the cascade.
MentionsAnyKeyword ==
    \E kw \in { <<"d","s","a">>,
                <<"d","a","t","a"," ","s","t","r","u","c","t","u","r","e">>,
                <<"a","l","g","o","r","i","t","h","m">>,
                <<"c","o","d","i","n","g">>,
                <<"s","y","s","t","e","m">>, <<"d","e","s","i","g","n">>,
                <<"d","b","m","s">>, <<"d","a","t","a","b","a","s","e">>,
                <<"s","q","l">>,
                <<"o","s">>, <<"o","p","e","r","a","t","i","n","g">> } :
        Mentions(kw)

\* The answer to the greeting has been processed.
GreetingProcessed == state \notin {"IDLE", "GREETING"}

\* C23: once the answer to the greeting has been processed, interview_type
\* is "DSA" if the utterance mentions coding or algorithm, "System Design"
\* if it mentions system or design, "DBMS" if it mentions database or sql,
\* "Operating Systems" if it mentions operating or os, "DSA" if it holds no
\* keyword, and is never empty.
C23_TopicFromKeywords ==
    GreetingProcessed =>
        /\ (Mentions(<<"c","o","d","i","n","g">>)
              \/ Mentions(<<"a","l","g","o","r","i","t","h","m">>))
            => context.interview_type = "DSA"
        /\ (Mentions(<<"s","y","s","t","e","m">>)
              \/ Mentions(<<"d","e","s","i","g","n">>))
            => context.interview_type = "System Design"
        /\ (Mentions(<<"d","a","t","a","b","a","s","e">>)
              \/ Mentions(<<"s","q","l">>))
            => context.interview_type = "DBMS"
        /\ (Mentions(<<"o","p","e","r","a","t","i","n","g">>)
              \/ Mentions(<<"o","s">>))
            => context.interview_type = "Operating Systems"
        /\ ~MentionsAnyKeyword => context.interview_type = "DSA"
        /\ context.interview_type # ""


-----------------------------------------------------------------------------
(* _parse_question_response, as a function of the response *)

\* The contents of the sections of the texts parsed.
SectionTitles == { <<"Two Sum">>, <<"L","R","U">> }

SectionTexts == { <<"Given nums, find two.">>, <<"a","\n","-"," ","b">> }

SectionVerbals == { <<"The problem is in the editor.">>, <<"o","k">> }

\* What stands between two sections: the blank line of the layout that
\* QUESTION_PROMPT asks for, or a '---' line.
Separators == { <<"\n","\n">>, <<"\n","-","-","-","\n">> }

\* The labels as the prompt writes them and in lower case, with VERBAL or
\* EXPLANATION for the third.
LabelChoices ==
    {<<c[TitleLabel], c[TextLabel], c[x]>> :
        c \in {[l \in {TitleLabel, TextLabel} \cup ExplanationLabels |-> l],
               [l \in {TitleLabel, TextLabel} \cup ExplanationLabels
                  |-> Lower(l)]},
        x \in ExplanationLabels}

\* QUESTION_TITLE: title <sep> QUESTION_TEXT: text <sep> VERBAL: verbal
Layout(title, text, verbal, sep, labels) ==
    labels[1] \o <<" ">> \o title \o sep
      \o labels[2] \o <<" ">> \o text \o sep
      \o labels[3] \o <<" ">> \o verbal

WellFormedTexts ==
    {Layout(a, b, c, sep, labels) :
        a \in SectionTitles, b \in SectionTexts, c \in SectionVerbals,
        sep \in Separators, labels \in LabelChoices}

\* Texts without any label: plain, padded, holding '---', '---' alone.
UnlabelledTexts ==
    { <<"Reverse a list.">>,
      <<" ","Reverse a list.","\n">>,
      <<"a","-","-","-","b">>,
      <<"-","-","-">>,
      <<"-","-","-"," ","x"," ","-","-","-">>,
      <<"t","i","t","l","e">> }

\* Texts with some of the labels: one section only, and a label that ends
\* the text.
PartlyLabelledTexts ==
    { TitleLabel \o <<" ","Two Sum">>,
      TextLabel \o <<" ","Given nums, find two.">>,
      <<"V","E","R","B","A","L",":"," ","o","k">>,
      <<"i","n","t","r","o"," ">> \o TextLabel \o <<" ","x">>,
      TextLabel,
      TextLabel \o <<" ","\n">> }

ParserInputs ==
    WellFormedTexts \cup UnlabelledTexts \cup PartlyLabelledTexts \cup {<<>>}

ParserInit ==
    /\ StateMachineInit /\ WorkerInit /\ LogInit /\ FeedbackIdle
    /\ heard = <<>>
    /\ generated \in ParserInputs
    /\ extracted = <<>>
    /\ said = 0

ParseStep ==
    /\ extracted = <<>>
    /\ extracted' = <<_parse_question_response(generated)>>
    /\ UNCHANGED <<heard, generated, said, smVars, logVars, fbVars,
                   workerVars>>

ParserSpec == ParserInit /\ [][ParseStep]_vars

\* C24: for a text with non-empty QUESTION_TITLE, QUESTION_TEXT and VERBAL
\* (or EXPLANATION) sections in the layout of the question prompt, with or
\* without '---' between the sections, the parser returns the content of
\* the title section, of the text section and of the verbal section.
C24_LabelledSections ==
    extracted # <<>> =>
        \A a \in SectionTitles, b \in SectionTexts, c \in SectionVerbals,
           sep \in Separators, labels \in LabelChoices :
            generated = Layout(a, b, c, sep, labels)
              => extracted[1] = <<a, b, c>>


\* Text in which no section label occurs, letter case apart.
Unlabelled(s) ==
    /\ s # <<>>
    /\ \A l \in {TitleLabel, TextLabel} \cup ExplanationLabels :
          ~Contains(Upper(s), l)

\* Line 343: both fields empty after the three searches.
NothingExtracted(s) ==
    /\ ExtractSections(s).question_text = <<>>
    /\ ExtractSections(s).explanation = <<>>

\* The whole response is used exactly when nothing was extracted, and the
\* empty response gives the default title and the two placeholders.
FallbackRule ==
    /\ (generated # <<>> /\ NothingExtracted(generated))
          => /\ extracted[1][2] = Cleaned(generated)
             /\ extracted[1][3] = Cleaned(generated)
    /\ (generated # <<>> /\ ~NothingExtracted(generated))
          => /\ extracted[1][2] = Cleaned(ExtractSections(generated).question_text)
             /\ extracted[1][3] = Cleaned(ExtractSections(generated).explanation)
             /\ \/ extracted[1][2] # Cleaned(generated)
                \/ extracted[1][3] # Cleaned(generated)
    /\ generated = <<>>
          => extracted[1] = << DefaultTitle, <<"Please solve the problem.">>,
                               <<"Let me give you a problem to work on.">> >>

\* C25 as stated: for a text without section label the parser returns
\* the default title and the raw text as question text and as explanation;
\* the whole text is used exactly when both fields are empty after the
\* label extraction; the empty text gives the default title and the two
\* placeholders.
C25_UnlabelledIsRawInput ==
    extracted # <<>> =>
        /\ Unlabelled(generated)
              => extracted[1] = <<DefaultTitle, generated, generated>>
        /\ FallbackRule

\* C25, amended: for a text without section label the parser returns the
\* default title and, as question text and as explanation, the text with
\* its '---' tokens removed and then stripped of surrounding whitespace;
\* the rest as stated.
C25_UnlabelledIsCleanedInput ==
    extracted # <<>> =>
        /\ Unlabelled(generated)
              => extracted[1] = <<DefaultTitle, Cleaned(generated),
                                  Cleaned(generated)>>
        /\ FallbackRule

\* An unlabelled text holding '---' has been parsed.
C25_Witness ==
    /\ generated = <<"a","-","-","-","b">>
    /\ extracted = << <<DefaultTitle, <<"a","b">>, <<"a","b">> >> >>


-----------------------------------------------------------------------------
(* The worker's events for one Task, under WorkerSpec *)

\* Lines 53-56 and 74-95, for a Task whose response is not empty.
SpokenTaskEvents ==
    << "busy_set", "call", "response_ready", "speaking_started", "speak",
       "wait_until_done", "speaking_finished", "busy_cleared",
       "task_complete" >>

\* The Task in hand returned a response that is not empty.
Responded ==
    \/ wpc \in {"speak", "speak_if", "wait"}
    \/ \E i \in 1..Len(events) : events[i] = "response_ready"

\* The worker stands between two Tasks.
BetweenTasks == wpc \in {"while", "if", "stopped"}

\* What the worker did for a Task with a response is an initial segment of
\* SpokenTaskEvents, the whole of it once the Task is over; and while
\* is_busy reads false the worker is not inside the state machine and no
\* response is being played.
EventsInOrder ==
    /\ Responded => IsPrefix(events, SpokenTaskEvents)
    /\ (Responded /\ BetweenTasks) => events = SpokenTaskEvents
    /\ ~is_busy => ("worker" \notin sm_in /\ playing = 0)

\* C26 as stated: for a Task with a response the worker's events come in
\* the order busy set, state-machine call, response forwarded, speaking
\* started, speech queued and awaited, speaking finished, busy cleared,
\* task-complete; is_busy is true from the dequeue until the speech has
\* finished; and is_busy never reads false while the response is being
\* generated or spoken.
C26_BusyFromDequeue ==
    /\ EventsInOrder
    /\ wpc \in {"set_busy", "call", "in_sm", "speak", "speak_if", "wait"}
          => is_busy

\* C26, amended: the same order; is_busy is true from the statement that
\* sets it, which follows the dequeue, until the speech has finished (it
\* still reads false between pop(0) and that statement); and is_busy never
\* reads false while the response is being generated or spoken.
C26_BusyFromBusySet ==
    /\ EventsInOrder
    /\ wpc \in {"call", "in_sm", "speak", "speak_if", "wait"} => is_busy
    /\ wpc = "set_busy" => ~is_busy

\* A Task was spoken to the end and the flag is down again.
C26_Witness ==
    /\ events = SpokenTaskEvents
    /\ task.id \in played
    /\ ~is_busy
    /\ BetweenTasks


-----------------------------------------------------------------------------
(* The inputs the producers drop, under WorkerSpec *)

\* This step appends a Task of the given action to the queue.
Queues(action) ==
    task_queue' = Append(task_queue, [id |-> next_id, action |-> action])

\* This step is a handler returning on an input as is_busy reads true.
Drops == ignored' # ignored

\* C27: no process Task is queued by a step that finds is_busy true, the
\* interview inactive or paused, or the microphone muted, and no hint Task
\* by a step that finds is_busy true or the interview inactive; the handler
\* that returns on such an input leaves the queue, the worker, the speech
\* and the state machine's data as they were.
C27_BusyInputsDropped ==
    [][ /\ (is_busy \/ ~is_interview_active \/ is_paused \/ is_mic_muted)
              => ~Queues("process")
        /\ (is_busy \/ ~is_interview_active) => ~Queues("hint")
        /\ Drops => UNCHANGED <<task_queue, next_id, ownVars, ttsVars, sm_in,
                                is_interview_active, is_paused, is_mic_muted,
                                coreVars>>
        /\ Drops => is_busy
    ]_vars

\* An utterance arrived while the worker was inside the state machine for
\* the only Task, and was dropped.
C27_Witness ==
    /\ ignored = "speech"
    /\ is_busy
    /\ wpc = "in_sm"
    /\ task_queue = <<>>
    /\ next_id = task.id + 1


-----------------------------------------------------------------------------
(* Shutdown, under FairWorkerSpec *)

\* InterviewWorker.stop has been called.
Stopped == ~running

\* The worker has left the loop of run.
LoopLeft == wpc = "stopped"

\* C28: once stop() has been called the worker leaves its loop, no Task is
\* dequeued any more, and so none of the Tasks then queued is executed.
C28_StopEndsConsumer ==
    /\ Stopped ~> LoopLeft
    /\ [][Stopped => executed' = executed]_vars


-----------------------------------------------------------------------------
(* SimpleTTS by itself: a caller that passes texts to speak() and then     *)
(* calls wait_until_done(), and the speak thread.  stop() is not called.   *)

\* SimpleTTS.__init__, and the caller about to pass its first text.
TtsInit ==
    /\ StateMachineInit /\ LogInit /\ FeedbackIdle /\ InputsIdle
    /\ task_queue = <<>>
    /\ running = TRUE
    /\ is_busy = FALSE
    /\ wpc = "speak"
    /\ task = [id |-> 1, action |-> "none"]
    /\ is_interview_active = FALSE
    /\ is_paused = FALSE
    /\ is_mic_muted = FALSE
    /\ window = "open"
    /\ ignored = NothingIgnored
    /\ speech_queue = <<>>
    /\ is_speaking = FALSE
    /\ stop_requested = FALSE
    /\ tpc = "none"
    /\ next_id = 1
    /\ executed = <<>>
    /\ sm_in = {}
    /\ spoke = {}
    /\ events = <<>>
    /\ playing = 0
    /\ played = {}

\* The caller has another text: speak() is called again, with
\* wait_until_done() not called yet or after it has returned.
SpeakAgain ==
    /\ wpc \in {"wait", "clear_busy"}
    /\ task.id < MaxTexts
    /\ task' = [task EXCEPT !.id = task.id + 1]
    /\ wpc' = "speak"
    /\ UNCHANGED <<running, is_busy, executed, spoke, events, task_queue,
                   next_id, uiVars, ttsVars, sm_in>>
    /\ UNCHANGED coreVars

TtsNext ==
    \/ speak_put
    \/ speak_if
    \/ SpeakAgain
    \/ wait_until_done
    \/ loop_begin
    \/ loop_while
    \/ loop_get
    \/ loop_play
    \/ loop_end

\* threading.Thread runs _speak_loop: the speak thread, while it can take
\* a step, eventually takes one.
TtsSpec == TtsInit /\ [][TtsNext]_vars /\ WF_vars(SpeakThread)

\* C29: whenever wait_until_done() returns, every text passed to speak()
\* before has been played and the speech queue is empty.
C29_AllPlayedOnReturn ==
    [][ (wpc = "wait" /\ wpc' = "clear_busy")
          => (spoke \subseteq played /\ speech_queue = <<>>) ]_vars


-----------------------------------------------------------------------------
(* The transcript within a session, under LogSpec *)

\* A step that is a process, hint or end Task (the clock stands while a
\* Task runs).
SessionTaskStep ==
    /\ last'.action \in {"process", "hint", "end"}
    /\ now' = now

\* The timestamps never decrease along the transcript.
Chronological(entries) ==
    \A i, j \in 1..Len(entries) :
        i <= j => entries[i].timestamp <= entries[j].timestamp

\* C30: a process, hint or end Task leaves the entries of the transcript as
\* they were and in place, and only adds entries after them; the timestamps
\* never decrease along the transcript; and a process Task adds the
\* utterance as a User entry first, with only AI entries after it.
C30_TranscriptAppendOnly ==
    [][ SessionTaskStep =>
          /\ IsPrefix(transcript, transcript')
          /\ Chronological(transcript')
          /\ last'.action = "process" =>
                /\ Len(transcript') > Len(transcript)
                /\ transcript'[Len(transcript) + 1].speaker = "User"
                /\ transcript'[Len(transcript) + 1].text = last'.user_input
                /\ \A i \in (Len(transcript) + 2)..Len(transcript') :
                      transcript'[i].speaker = "AI"
      ]_vars

\* The greeting, then, at a later reading of the clock, an utterance and
\* the answer to it.
C30_Witness ==
    /\ last.action = "process"
    /\ Len(transcript) = 3
    /\ transcript[2].speaker = "User"
    /\ transcript[2].text = last.user_input
    /\ transcript[3].speaker = "AI"
    /\ transcript[1].timestamp < transcript[2].timestamp


-----------------------------------------------------------------------------
(* A session in which, after the answer to the greeting, every utterance   *)
(* is none of garbage, hint request and completion.                        *)

DrillUtterances == {u \in Utterances : IsDefault(u)}

DrillStart ==
    /\ state = "IDLE"
    /\ StartTask

DrillGreeting ==
    /\ state = "GREETING"
    /\ \E u \in Utterances, code \in CodeSnapshots :
           Execute("process", u, code)
    /\ UNCHANGED <<workerVars, logVars, fbVars, inputVars>>

DrillProcess ==
    /\ state = "CANDIDATE_SOLVING"
    /\ \E u \in DrillUtterances, code \in CodeSnapshots :
           Execute("process", u, code)
    /\ said' = said + 1
    /\ UNCHANGED <<workerVars, logVars, fbVars, heard, generated, extracted>>

DrillNext == DrillStart \/ DrillGreeting \/ DrillProcess

DrillSpec == Init /\ [][DrillNext]_vars

\* C32: in a session that after the answer to the greeting hears only
\* utterances of the default path, the progression is forced by the 5th and
\* by the 10th utterance and by no other; an utterance that does not force
\* it makes one call and keeps the phase; the second question is presented
\* by the 5th utterance and the phase is Ended after the 10th, not before.
C32_FifthForces ==
    [][ said' = said + 1 =>
          /\ last'.path = "default"
          /\ last'.forced <=> said' \in {5, 10}
          /\ ~last'.forced =>
                /\ last'.ai_calls = 1
                /\ state' = state
                /\ context'.follow_up_attempts = context.follow_up_attempts + 1
          /\ last'.forced => context'.follow_up_attempts = 0
          /\ Len(context'.questions_asked) = (IF said' < 5 THEN 1 ELSE 2)
          /\ state' = (IF said' < 10 THEN "CANDIDATE_SOLVING" ELSE "ENDED")
      ]_vars

\* The tenth utterance has ended the interview.
C32_Witness ==
    /\ said = 10
    /\ state = "ENDED"
    /\ last.forced
    /\ Len(context.questions_asked) = 2


-----------------------------------------------------------------------------
(* FollowUp, under Spec *)

\* A process Task met in FollowUp.
FollowUpStep ==
    /\ state = "FOLLOW_UP"
    /\ last'.action = "process"

\* What a process Task does in FollowUp: the interview ends if and only if
\* 2 questions have been asked, and otherwise the phase and the questions
\* asked stay; and no Task leads from FollowUp to CandidateSolving.
FollowUpRule ==
    /\ FollowUpStep =>
          /\ state' = "ENDED" <=> Len(context.questions_asked) >= 2
          /\ Len(context.questions_asked) < 2 =>
                /\ state' = "FOLLOW_UP"
                /\ context'.questions_asked = context.questions_asked
    /\ state = "FOLLOW_UP" => state' # "CANDIDATE_SOLVING"

\* What a completion does in CandidateSolving.
ToFollowUp ==
    /\ state' = "FOLLOW_UP"
    /\ context'.follow_up_attempts = 0
    /\ last'.ai_calls = 1

\* C33 as stated: an utterance the completion classifier accepts, met in
\* CandidateSolving, moves the phase to FollowUp with follow_up_attempts 0
\* and one call; a process Task in FollowUp ends the interview if and only
\* if 2 questions have been asked and otherwise keeps the phase and the
\* questions asked; FollowUp is never left for CandidateSolving.
C33_CompletionToFollowUp ==
    [][ /\ (SolvingStep /\ IsFinished(last'.user_input)) => ToFollowUp
        /\ FollowUpRule
      ]_vars

\* C33, amended: the same for an utterance the completion classifier
\* accepts and the garbage and hint classifiers do not; the rest as stated.
C33_PlainCompletionToFollowUp ==
    [][ /\ (/\ SolvingStep
            /\ IsFinished(last'.user_input)
            /\ ~IsGarbage(last'.user_input)
            /\ ~IsHint(last'.user_input)) => ToFollowUp
        /\ FollowUpRule
      ]_vars

\* A follow-up answer ended the interview after the second question.
C33_Witness ==
    /\ state = "ENDED"
    /\ last.action = "process"
    /\ "follow_up_response" \in DOMAIN last.texts
    /\ Len(context.questions_asked) = 2


-----------------------------------------------------------------------------
(* Feedback on the default path, under Spec *)

\* A default-path process Task in CandidateSolving that gives feedback.
DefaultFeedbackStep ==
    /\ SolvingStep
    /\ IsDefault(last'.user_input)
    /\ ~last'.forced

\* The service answered the feedback prompt with status 200 and no text:
\* the only reply for which generate_response returns EmptyReplyFallback.
EmptyGenerated ==
    /\ last'.statuses["FEEDBACK_PROMPT"] = "ok"
    /\ last'.texts["FEEDBACK_PROMPT"] = EmptyReplyFallback

\* The literal of line 398 as the Task returns it, tags removed.
UnclearDisplayed == ReadFeedback(UnclearFallback).display

\* C34: a default-path process Task in CandidateSolving that does not
\* exhaust the retries makes exactly one call of the generative service and
\* leaves the phase, hints_given, questions_asked and current_question as
\* they were; when the generated text is empty, the text taken in its place
\* is the literal "[UNCLEAR] Okay, continue." and no mistake is recorded.
C34_FeedbackFrame ==
    [][DefaultFeedbackStep =>
        /\ last'.ai_calls = 1
        /\ state' = "CANDIDATE_SOLVING"
        /\ context'.hints_given = context.hints_given
        /\ context'.questions_asked = context.questions_asked
        /\ context'.current_question = context.current_question
        /\ EmptyGenerated =>
              /\ last'.response \in {UnclearFallback, UnclearDisplayed}
              /\ context'.mistakes = context.mistakes
    ]_vars


-----------------------------------------------------------------------------
(* The hint button outside CandidateSolving *)

\* A session in which the transcript is followed through every phase: the
\* candidate names a topic, mumbles or says they are done, and the buttons
\* are pressed in between.
TalkUtterances ==
    { <<"u","m">>, <<"c","o","d","i","n","g">>, <<"d","o","n","e">> }

\* What a Task that ran to r leaves behind, the transcript included.
CommitWithTranscript(action, user_input, r) ==
    /\ Commit(action, user_input, r)
    /\ Len(r.transcript) <= MaxTalk
    /\ transcript' = r.transcript
    /\ conversation_history' = r.conversation_history
    /\ UNCHANGED <<now, fbVars, inputVars, workerVars>>

TalkExecute(action, user_input, code) ==
    \E ai \in ReplyChoices(CallsMade(action, user_input, code)) :
        CommitWithTranscript(action, user_input,
                             Dispatch(Machine, action, user_input, code,
                                      ai))

TalkStartTask == state = "IDLE" /\ TalkExecute("start", <<>>, <<>>)

TalkProcessTask ==
    /\ SessionStarted
    /\ \E u \in TalkUtterances, code \in CodeSnapshots :
           TalkExecute("process", u, code)

TalkHintTask ==
    /\ SessionStarted /\ ButtonsLive
    /\ \E code \in CodeSnapshots : TalkExecute("hint", <<>>, code)

TalkEndTask ==
    /\ SessionStarted /\ ButtonsLive
    /\ TalkExecute("end", <<>>, <<>>)

TalkNext == TalkStartTask \/ TalkProcessTask \/ TalkHintTask \/ TalkEndTask

TalkSpec == Init /\ [][TalkNext]_vars

\* A hint Task met in a phase other than CandidateSolving (the clock stands
\* while a Task runs).
HintElsewhereStep ==
    /\ last'.action = "hint"
    /\ now' = now
    /\ state # "CANDIDATE_SOLVING"

\* C39: a hint Task executed in a phase other than CandidateSolving returns
\* the fixed message "Hints are available while solving a problem.", makes
\* no call of the generative service and leaves the phase, hints_given,
\* follow_up_attempts and the transcript as they were.
C39_HintElsewhereFrame ==
    [][HintElsewhereStep =>
        /\ last'.response = HintsUnavailableText
        /\ last'.ai_calls = 0
        /\ state' = state
        /\ context'.hints_given = context.hints_given
        /\ context'.follow_up_attempts = context.follow_up_attempts
        /\ transcript' = transcript
    ]_vars

\* The hint button was answered with the fixed message in FollowUp, with
\* hints given before and entries in the transcript.
C39_Witness ==
    /\ state = "FOLLOW_UP"
    /\ last.action = "hint"
    /\ last.response = HintsUnavailableText
    /\ last.ai_calls = 0
    /\ context.hints_given > 0
    /\ transcript # <<>>


-----------------------------------------------------------------------------
(* The responses in the transcript, under TalkSpec *)

\* Where the entries a Task adds begin: a start Task begins a new transcript.
FirstAdded == IF last'.action = "start" THEN 1 ELSE Len(transcript) + 1

\* C40: every start, process, hint or end Task that returns a non-empty
\* response adds an AI entry to the transcript whose text is that response.
C40_ResponsesRecorded ==
    [][ last'.response # <<>> =>
          \E i \in FirstAdded..Len(transcript') :
              /\ transcript'[i].speaker = "AI"
              /\ transcript'[i].text = last'.response
      ]_vars


-----------------------------------------------------------------------------
(* The phases at rest and the phase listener, under Spec *)

\* The phases a Task may leave the state machine in.
RestingPhases ==
    {"IDLE", "GREETING", "CANDIDATE_SOLVING", "FOLLOW_UP", "ENDED"}

\* The phases a Task only passes through.
PassingPhases == {"QUESTION_PRESENTING", "GIVING_HINT", "CLOSING"}

\* C35: between two Tasks the phase is Idle, Greeting, CandidateSolving,
\* FollowUp or Ended; QuestionPresenting, GivingHint and Closing are assigned
\* only within a Task that leaves them again; and no Task ever assigns
\* TopicSelection.
C35_RestingPhases ==
    /\ state \in RestingPhases
    /\ last.phases \subseteq RestingPhases \cup PassingPhases
    /\ "TOPIC_SELECTION" \notin last.phases

\* A forced progression passed through QuestionPresenting to the second
\* question.
C35_Witness ==
    /\ state = "CANDIDATE_SOLVING"
    /\ last.action = "process"
    /\ last.forced
    /\ "QUESTION_PRESENTING" \in last.phases
    /\ Len(context.questions_asked) = 2

\* C38: every change of the phase is passed to on_state_change: a Task that
\* leaves the phase changed has passed the new phase to the listener last,
\* and the phase a Task passed to the listener last is the phase the Task
\* leaves.
C38_ListenerInStep ==
    [][ /\ state' # state => last'.reported = state'
        /\ last'.reported # "none" => last'.reported = state'
      ]_vars


-----------------------------------------------------------------------------
(* The phases and what the service answers, under Spec *)

\* What the comparison of two runs looks at: the phase, the phases passed
\* through, the two counters and the number of questions asked.
Trajectory(m) ==
    << m.state, m.phases, m.context.follow_up_attempts,
       m.context.hints_given, Len(m.context.questions_asked) >>

\* The state machine of another run that stands at the same point of its
\* trajectory with other texts stored: no mistakes, no question text, no
\* topic, and DefaultTitle for every title.
OtherRun ==
    [Machine EXCEPT
        !.context.mistakes = <<>>,
        !.context.current_question = <<>>,
        !.context.current_code = <<>>,
        !.context.interview_type = "",
        !.context.questions_asked = [i \in 1..Len(@) |-> DefaultTitle]]

\* What the service answers in the other run: every call fails, the
\* feedback, hint and greeting calls with a status other than 200 and the
\* others with an exception (the runs followed draw the texts and timeouts).
OtherReplies ==
    [p \in Prompts |->
        [status  |-> IF p \in {"FEEDBACK_PROMPT", "HINT_PROMPT",
                               "GREETING_PROMPT"}
                     THEN "http_error" ELSE "exception",
         content |-> <<>>]]

\* C36: the phase, the phases passed through, follow_up_attempts,
\* hints_given and the number of questions asked after a Task are those of
\* any other run given the same Tasks and utterances, whatever texts the
\* service generated in either run, failures and the empty text included.
C36_TextsDoNotSteer ==
    [][ \A code \in CodeSnapshots :
            Trajectory(Dispatch(OtherRun, last'.action, last'.user_input,
                                code, OtherReplies))
              = << state', last'.phases, context'.follow_up_attempts,
                   context'.hints_given, Len(context'.questions_asked) >>
      ]_vars

\* A run in which the texts did differ: a mistake was recorded from a
\* response tagged WRONG, and the feedback call of the last Task timed out.
C36_Witness ==
    /\ state = "CANDIDATE_SOLVING"
    /\ last.action = "process"
    /\ last.path = "default"
    /\ last.statuses = ("FEEDBACK_PROMPT" :> "timeout")
    /\ context.mistakes # <<>>
    /\ context.follow_up_attempts > 1


-----------------------------------------------------------------------------
(* The Tasks outstanding, under WorkerSpec *)

\* C37: the Tasks in the queue and the Task the worker executes are never
\* more than one together.
C37_OneOutstanding ==
    Len(task_queue) + (IF Executing THEN 1 ELSE 0) <= 1


-----------------------------------------------------------------------------
(* Failures within a Task, under FaultySpec *)

\* The Task the worker dequeued last has met a failure: one raised out of
\* the state-machine entry point (by the state machine or by a listener it
\* calls), or one raised by speak() or wait_until_done().
Failed ==
    \E k \in 1..Len(events) : events[k] \in {"error_occurred", "tts_error"}

\* The worker has finished that Task: is_busy false again, task_complete
\* signalled last, and the loop back at its test.
Completed ==
    /\ wpc = "while"
    /\ ~is_busy
    /\ events # <<>>
    /\ events[Len(events)] = "task_complete"

\* The worker has called the entry point for Task i.
Called(i) ==
    /\ task.id = i
    /\ \E k \in 1..Len(events) : events[k] = "call"

\* C31: a failure raised while a Task executes does not end the worker: the
\* loop is never left, the Task that failed is completed with is_busy false
\* and task_complete signalled, and every Task that waits in the queue when
\* a Task has failed is dequeued and its entry point called.
C31_FailureNotFatal ==
    /\ [](wpc # "stopped")
    /\ (Failed /\ Executing) ~> (Failed /\ Completed)
    /\ \A i \in 1..MaxTasks :
          (Failed /\ task_queue # <<>> /\ Head(task_queue).id = i)
              ~> Called(i)

\* A Task that failed has been completed while the next one waits.
C31_Witness ==
    /\ Failed
    /\ Completed
    /\ task_queue # <<>>
    /\ Len(executed) >= 2

=============================================================================
